---- MODULE Spec2Model ----
(***************************************************************************)
(* Extraction-and-verification pipeline of the PDF extraction tool:        *)
(* extractWatershedData / extractDocumentData with the response parser,    *)
(* the hallucination filter, the two validators and the confidence score.  *)
(*                                                                         *)
(* Strings are sequences of one-character strings.  JSON values are        *)
(* records tagged by the field t: "undef", "null", "num", "str", "arr",    *)
(* "obj".                                                                  *)
(***************************************************************************)
EXTENDS Integers, Sequences, FiniteSets, TLC

(***************************************************************************)
(* String primitives (String.prototype.trim / includes, RegExp)            *)
(***************************************************************************)

\* the characters \s matches
WhitespaceChars == {" ", "\n"}

\* the characters of the class [.,;:]
PunctuationChars == {".", ",", ";", ":"}

\* the token String.replace(/\s+/g, '\\s+') writes into the pattern
WsToken == "\\s+"

\* the token String.replace(/[.,;:]/g, '[.,;:\\s]*') writes into the pattern
PunctToken == "[.,;:\\s]*"

UpperCase ==
  <<"A", "B", "C", "D", "E", "F", "G", "H", "I", "J", "K", "L", "M", "N", "O", "P", "Q", "R", "S", "T", "U", "V", "W", "X", "Y", "Z">>

LowerCase ==
  <<"a", "b", "c", "d", "e", "f", "g", "h", "i", "j", "k", "l", "m", "n", "o", "p", "q", "r", "s", "t", "u", "v", "w", "x", "y", "z">>

\* the lower-case letter of each upper-case letter
ToLowerCase ==
  [c \in {UpperCase[i] : i \in 1..Len(UpperCase)} |->
     LowerCase[CHOOSE i \in 1..Len(UpperCase) : UpperCase[i] = c]]

\* canonical form of a character under the RegExp 'i' flag
Fold(c) == IF c \in DOMAIN ToLowerCase THEN ToLowerCase[c] ELSE c

RECURSIVE TrimStart(_)
TrimStart(s) ==
  IF s # <<>> /\ Head(s) \in WhitespaceChars THEN TrimStart(Tail(s)) ELSE s

RECURSIVE TrimEnd(_)
TrimEnd(s) ==
  IF s # <<>> /\ s[Len(s)] \in WhitespaceChars
  THEN TrimEnd(SubSeq(s, 1, Len(s) - 1))
  ELSE s

\* String.prototype.trim
Trim(s) == TrimEnd(TrimStart(s))

\* String.prototype.includes: val occurs in text as a contiguous, exact substring
Includes(text, val) ==
  \E i \in 1..(Len(text) + 1) :
    /\ i + Len(val) - 1 <= Len(text)
    /\ \A k \in 1..Len(val) : text[i + k - 1] = val[k]

\* val.replace(/\s+/g, '\\s+'): every maximal run of whitespace becomes one token
RECURSIVE ReplaceWhitespace(_)
ReplaceWhitespace(s) ==
  IF s = <<>> THEN <<>>
  ELSE IF Head(s) \in WhitespaceChars
       THEN <<WsToken>> \o ReplaceWhitespace(TrimStart(s))
       ELSE <<Head(s)>> \o ReplaceWhitespace(Tail(s))

\* .replace(/[.,;:]/g, '[.,;:\\s]*'): every punctuation character becomes one token
ReplacePunctuation(p) ==
  [i \in 1..Len(p) |-> IF p[i] \in PunctuationChars THEN PunctToken ELSE p[i]]

\* the source of the tolerant pattern built from an identifying string
flexiblePattern(val) == ReplacePunctuation(ReplaceWhitespace(val))

\* new RegExp(pattern, 'i') throws a SyntaxError on an unterminated group
RegExpThrows(pattern) == \E i \in 1..Len(pattern) : pattern[i] = "("

\* the pattern, from token i on, matches text at position j
RECURSIVE MatchHere(_, _, _, _)
MatchHere(pattern, i, text, j) ==
  IF i > Len(pattern) THEN TRUE
  ELSE IF pattern[i] = WsToken
       THEN \E k \in 1..(Len(text) - j + 1) :
              /\ \A m \in j..(j + k - 1) : text[m] \in WhitespaceChars
              /\ MatchHere(pattern, i + 1, text, j + k)
  ELSE IF pattern[i] = PunctToken
       THEN \E k \in 0..(Len(text) - j + 1) :
              /\ \A m \in j..(j + k - 1) :
                   text[m] \in (PunctuationChars \cup WhitespaceChars)
              /\ MatchHere(pattern, i + 1, text, j + k)
  ELSE /\ j <= Len(text)
       /\ Fold(text[j]) = Fold(pattern[i])
       /\ MatchHere(pattern, i + 1, text, j + 1)

\* RegExp.prototype.test with the 'i' flag: the pattern matches somewhere in text
RegExpTest(pattern, text) ==
  \E j \in 1..(Len(text) + 1) : MatchHere(pattern, 1, text, j)

(***************************************************************************)
(* Response parser.  A reply is a sequence of tokens: "{" and "}", the     *)
(* fence marker, the word json, "m" (a complete scalar member such as      *)
(* "id": 1), "k" (a key and its colon, to be followed by a nested object), *)
(* the literals "n" (number), "s" (string), "a" (array), "null", the       *)
(* prose word "p" and whitespace.                                          *)
(***************************************************************************)

\* the fence marker: three back-ticks
Fence == "fence"

JsonTag == "json"

\* positions of the reply that hold token t
Positions(reply, t) == {i \in 1..Len(reply) : reply[i] = t}

Min(S) == CHOOSE x \in S : \A y \in S : x <= y

Max(S) == CHOOSE x \in S : \A y \in S : x >= y

\* responseContent.match(/FENCE(?:json)?([\s\S]*?)FENCE/): the first fence that has a
\* later fence opens, the word json right after it is skipped, the next fence closes
FenceMatches(reply) == Cardinality(Positions(reply, Fence)) >= 2

FenceGroup(reply) ==
  LET open  == Min(Positions(reply, Fence))
      close == Min(Positions(reply, Fence) \ {open})
      from  == IF open + 1 < close /\ reply[open + 1] = JsonTag
               THEN open + 2 ELSE open + 1
  IN SubSeq(reply, from, close - 1)

\* responseContent.match(/({[\s\S]*})/): greedy, from the first "{" to the last "}"
BraceMatches(reply) ==
  /\ Positions(reply, "{") # {}
  /\ Positions(reply, "}") # {}
  /\ Min(Positions(reply, "{")) < Max(Positions(reply, "}"))

\* a lazy quantifier instead of the greedy one: up to the first "}" after the "{"
BraceGroup_lazy(reply) ==
  LET open == Min(Positions(reply, "{"))
  IN SubSeq(reply, open, Min({i \in Positions(reply, "}") : i > open}))

BraceGroup(reply) ==
  SubSeq(reply, Min(Positions(reply, "{")), Max(Positions(reply, "}")))

\* jsonMatch ? jsonMatch[1].trim() : responseContent
jsonContent(reply) ==
  IF FenceMatches(reply) THEN Trim(FenceGroup(reply))
  ELSE IF BraceMatches(reply) THEN Trim(BraceGroup(reply))
  ELSE reply

\* JSON.parse skips the whitespace between tokens
StripWhitespace(s) == SelectSeq(s, LAMBDA c : c \notin WhitespaceChars)

\* members of an object from token i on; the position after the closing "}", 0 on a
\* syntax error
RECURSIVE ParseMembers(_, _)
ParseMembers(toks, i) ==
  IF i > Len(toks) THEN 0
  ELSE IF toks[i] = "}" THEN i + 1
  ELSE IF toks[i] = "m" THEN ParseMembers(toks, i + 1)
  ELSE IF toks[i] = "k" /\ i + 1 <= Len(toks) /\ toks[i + 1] = "{"
       THEN LET r == ParseMembers(toks, i + 2)
            IN IF r = 0 THEN 0 ELSE ParseMembers(toks, r)
  ELSE 0

IsObjectText(toks) ==
  /\ Len(toks) >= 2
  /\ toks[1] = "{"
  /\ ParseMembers(toks, 2) = Len(toks) + 1

ScalarLiterals == {"n", "s", "a", "null"}

\* JSON.parse(content) throws a SyntaxError
JSONparseThrows(content) ==
  LET toks == StripWhitespace(content)
  IN ~ \/ IsObjectText(toks)
       \/ Len(toks) = 1 /\ toks[1] \in ScalarLiterals

\* the value JSON.parse(content) returns, as its canonical text
JSONparse(content) == StripWhitespace(content)

(***************************************************************************)
(* JSON values                                                             *)
(***************************************************************************)

Undef == [t |-> "undef"]

Null == [t |-> "null"]

Str(s) == [t |-> "str", v |-> s]

Num(n) == [t |-> "num", n |-> n]

Arr(items) == [t |-> "arr", v |-> items]

\* value[key]; a primitive has no such property (the caller rules out null/undefined)
Get(value, key) ==
  IF value.t = "obj" /\ key \in DOMAIN value THEN value[key] ELSE Undef

\* JavaScript truthiness
Truthy(value) ==
  CASE value.t \in {"undef", "null"} -> FALSE
    [] value.t = "str" -> value.v # <<>>
    [] value.t = "num" -> value.n # 0
    [] OTHER -> TRUE

\* a || b
OrElse(a, b) == IF Truthy(a) THEN a ELSE b

Digits == <<"0", "1", "2", "3", "4", "5", "6", "7", "8", "9">>

\* Number.prototype.toString of a non-negative integer
RECURSIVE NumberToString(_)
NumberToString(n) ==
  IF n < 10 THEN <<Digits[n + 1]>>
  ELSE NumberToString(n \div 10) \o <<Digits[(n % 10) + 1]>>

\* value.toString() of a string or a number
toString(value) == IF value.t = "num" THEN NumberToString(value.n) ELSE value.v

\* value.length
LengthOf(value) ==
  IF value.t \in {"arr", "str"} THEN Num(Len(value.v)) ELSE Undef

\* typeof value === 'number'
IsNumber(value) == value.t = "num"

\* the six list sections, in the order both validators and the filter name them
SectionNames ==
  <<"goals", "bmps", "implementation", "monitoring", "outreach", "geographicAreas">>

SectionSet == {SectionNames[i] : i \in 1..Len(SectionNames)}

(***************************************************************************)
(* Hallucination filter (documentExtractor)                                *)
(***************************************************************************)

\* identifying strings of at most this many characters are matched exactly
ShortTextMax == 5

\* (item?.[key] || '').toString().trim()
itemVal(item, key) ==
  LET field == IF item.t \in {"null", "undef"} THEN Undef ELSE Get(item, key)
  IN Trim(toString(OrElse(field, Str(<<>>))))

\* the presence test both the filter and the validator apply to a trimmed text
textPresent(val, originalText) ==
  IF Len(val) > ShortTextMax
  THEN RegExpTest(flexiblePattern(val), originalText)
  ELSE Includes(originalText, val)

\* building the RegExp of the presence test throws
textPresentThrows(val) ==
  Len(val) > ShortTextMax /\ RegExpThrows(flexiblePattern(val))

\* the callback without its exact-match branch for short strings
ensurePresentKeeps_flexibleOnly(item, key, originalText) ==
  LET val == itemVal(item, key)
  IN val # <<>> /\ RegExpTest(flexiblePattern(val), originalText)

\* the callback of items.filter in ensurePresent
ensurePresentKeeps(item, key, originalText) ==
  LET val == itemVal(item, key)
  IN val # <<>> /\ textPresent(val, originalText)

\* a filter that also rejects the item at index 0
ensurePresent_skipFirst(items, key, originalText) ==
  IF items.t # "arr" THEN items
  ELSE Arr(SelectSeq(SubSeq(items.v, 2, Len(items.v)),
                     LAMBDA item : ensurePresentKeeps(item, key, originalText)))

ensurePresent(items, key, originalText) ==
  IF items.t # "arr" THEN items
  ELSE Arr(SelectSeq(items.v, LAMBDA item : ensurePresentKeeps(item, key, originalText)))

ensurePresentThrows(items, key) ==
  /\ items.t = "arr"
  /\ \E i \in 1..Len(items.v) : textPresentThrows(itemVal(items.v[i], key))

\* the key each section is filtered (and, in the document validator, checked) by
documentKey(section) == IF section = "goals" THEN "description" ELSE "name"

\* the key the || fallback of the filter names
fallbackKey(section) ==
  CASE section \in {"implementation", "outreach"} -> "activity"
    [] section = "monitoring" -> "metric"
    [] OTHER -> documentKey(section)

\* one section of the filter's result:
\* ensurePresent(data.s, key) || ensurePresent(data.s, fallback)
filteredSection(data, section, originalText) ==
  OrElse(ensurePresent(Get(data, section), documentKey(section), originalText),
         ensurePresent(Get(data, section), fallbackKey(section), originalText))

\* a filter that cuts the record down to its summary and its six sections
filterNonPresentEntities_sectionsOnly(data, originalText) ==
  IF data.t \notin {"obj", "arr"} THEN data
  ELSE [k \in {"t", "summary"} \cup SectionSet |->
          IF k = "t" THEN "obj"
          ELSE IF k \in SectionSet THEN filteredSection(data, k, originalText)
          ELSE Get(data, k)]

\* { ...data, goals: ..., ..., geographicAreas: ... }: the keys of data and the six
\* sections (the elements of an array are not kept apart)
filterNonPresentEntities(data, originalText) ==
  IF data.t \notin {"obj", "arr"} THEN data
  ELSE [k \in (IF data.t = "obj" THEN DOMAIN data ELSE {"t"}) \cup SectionSet |->
          IF k = "t" THEN "obj"
          ELSE IF k \in SectionSet THEN filteredSection(data, k, originalText)
          ELSE data[k]]

filterNonPresentEntitiesThrows(data) ==
  /\ data.t \in {"obj", "arr"}
  /\ \E section \in SectionSet :
       ensurePresentThrows(Get(data, section), documentKey(section))

(***************************************************************************)
(* Validators and confidence score                                         *)
(***************************************************************************)

\* the entity is counted: entity && entity[keyField]
entityChecked(entity, keyField) ==
  Truthy(entity) /\ Truthy(Get(entity, keyField))

\* entity[keyField].trim() is no function, or the RegExp cannot be built
entityCheckThrows(entity, keyField) ==
  /\ entityChecked(entity, keyField)
  /\ \/ Get(entity, keyField).t # "str"
     \/ textPresentThrows(Trim(Get(entity, keyField).v))

\* a re-check that looks for the exact text only
entityPasses_exactOnly(entity, keyField, originalText) ==
  Includes(originalText, Trim(Get(entity, keyField).v))

entityPasses(entity, keyField, originalText) ==
  textPresent(Trim(Get(entity, keyField).v), originalText)

\* the issue pushed for the entity at (0-based) index
entityIssue(entity, keyField, index) ==
  [issue |-> IF Len(Trim(Get(entity, keyField).v)) > ShortTextMax
             THEN "Entity not found" ELSE "Short entity not found",
   index |-> index]

RECURSIVE entityIssues(_, _, _, _)
entityIssues(items, keyField, originalText, i) ==
  IF i > Len(items) THEN <<>>
  ELSE (IF entityChecked(items[i], keyField)
           /\ ~entityPasses(items[i], keyField, originalText)
        THEN <<entityIssue(items[i], keyField, i - 1)>> ELSE <<>>)
       \o entityIssues(items, keyField, originalText, i + 1)

\* every entity of the array counted as passed, checked or not
validateEntityPresence_countAll(entities, keyField, originalText) ==
  IF ~Truthy(entities) \/ entities.t # "arr"
  THEN [totalChecks |-> 0, passedChecks |-> 0, issues |-> <<>>]
  ELSE LET items == entities.v
           checked == {i \in 1..Len(items) : entityChecked(items[i], keyField)}
       IN [totalChecks |-> Cardinality(checked),
           passedChecks |-> Len(items),
           issues |-> entityIssues(items, keyField, originalText, 1)]

validateEntityPresence(entities, keyField, originalText) ==
  IF ~Truthy(entities) \/ entities.t # "arr"
  THEN [totalChecks |-> 0, passedChecks |-> 0, issues |-> <<>>]
  ELSE LET items == entities.v
           checked == {i \in 1..Len(items) : entityChecked(items[i], keyField)}
       IN [totalChecks |-> Cardinality(checked),
           passedChecks |->
             Cardinality({i \in checked : entityPasses(items[i], keyField, originalText)}),
           issues |-> entityIssues(items, keyField, originalText, 1)]

validateEntityPresenceThrows(entities, keyField) ==
  /\ entities.t = "arr"
  /\ \E i \in 1..Len(entities.v) : entityCheckThrows(entities.v[i], keyField)

\* the key the watershed validator checks each section by
watershedKey(section) ==
  CASE section = "goals" -> "description"
    [] section \in {"implementation", "outreach"} -> "activity"
    [] section = "monitoring" -> "metric"
    [] OTHER -> "name"

RECURSIVE SumOver(_, _)
SumOver(f, S) ==
  IF S = {} THEN 0
  ELSE LET x == CHOOSE y \in S : TRUE IN f[x] + SumOver(f, S \ {x})

\* section.issues.slice(0, 3)
FirstThree(issues) == SubSeq(issues, 1, IF Len(issues) < 3 THEN Len(issues) ELSE 3)

RECURSIVE sectionIssues(_, _)
sectionIssues(sectionValidation, i) ==
  IF i > Len(SectionNames) THEN <<>>
  ELSE (IF SectionNames[i] \in DOMAIN sectionValidation
        THEN FirstThree(sectionValidation[SectionNames[i]].issues) ELSE <<>>)
       \o sectionIssues(sectionValidation, i + 1)

requiredSections == <<"summary", "goals", "bmps">>

\* validateExtractedData of the document extractor
validateExtractedData_document(data, originalText) ==
  LET rootOk == data.t = "obj"
      missing == SelectSeq(requiredSections, LAMBDA s : ~Truthy(Get(data, s)))
      present == {s \in SectionSet : Truthy(Get(data, s))}
      sv == [s \in present |->
               validateEntityPresence(Get(data, s), documentKey(s), originalText)]
  IN [totalChecks |-> 2 + SumOver([s \in present |-> sv[s].totalChecks], present),
      passedChecks |-> (IF rootOk THEN 1 ELSE 0)
                       + (IF missing = <<>> THEN 1 ELSE 0)
                       + SumOver([s \in present |-> sv[s].passedChecks], present),
      sectionValidation |-> sv,
      issues |-> (IF rootOk THEN <<>>
                  ELSE <<[issue |-> "Invalid data structure: root must be an object"]>>)
                 \o (IF missing = <<>> THEN <<>>
                     ELSE <<[issue |-> "Missing required sections", sections |-> missing]>>)
                 \o sectionIssues(sv, 1)]

\* data[section] on null, or a section's presence check, throws
validateExtractedData_documentThrows(data) ==
  \/ data.t \in {"null", "undef"}
  \/ \E s \in SectionSet :
       Truthy(Get(data, s)) /\ validateEntityPresenceThrows(Get(data, s), documentKey(s))

\* Check 1 of the watershed validator: the summary holds two non-negative numbers
summaryValid(data) ==
  LET summary == Get(data, "summary")
  IN /\ Truthy(summary)
     /\ IsNumber(Get(summary, "totalGoals"))
     /\ IsNumber(Get(summary, "totalBMPs"))
     /\ Get(summary, "totalGoals").n >= 0
     /\ Get(summary, "totalBMPs").n >= 0

\* Check 2 of the watershed validator: the array lengths equal the summary counts
lengthsMatch(data) ==
  LET summary == Get(data, "summary")
  IN /\ Truthy(Get(data, "goals"))
     /\ LengthOf(Get(data, "goals")) = Get(summary, "totalGoals")
     /\ Truthy(Get(data, "bmps"))
     /\ LengthOf(Get(data, "bmps")) = Get(summary, "totalBMPs")

\* data.summary.totalGoals is read although data.summary is null or undefined
lengthsMatchThrows(data) ==
  /\ Truthy(Get(data, "goals"))
  /\ Get(data, "summary").t \in {"null", "undef"}

\* validateExtractedData of the watershed extractor
validateExtractedData_watershed(data, originalText) ==
  LET sv == [s \in SectionSet |->
               validateEntityPresence(Get(data, s), watershedKey(s), originalText)]
  IN [totalChecks |-> 2 + SumOver([s \in SectionSet |-> sv[s].totalChecks], SectionSet),
      passedChecks |-> (IF summaryValid(data) THEN 1 ELSE 0)
                       + (IF lengthsMatch(data) THEN 1 ELSE 0)
                       + SumOver([s \in SectionSet |-> sv[s].passedChecks], SectionSet),
      sectionValidation |-> sv,
      issues |-> (IF summaryValid(data) THEN <<>>
                  ELSE <<[issue |-> "Summary contains invalid values"]>>)
                 \o (IF lengthsMatch(data) THEN <<>>
                     ELSE <<[issue |-> "Array lengths do not match summary counts"]>>)]

validateExtractedData_watershedThrows(data) ==
  \/ data.t \in {"null", "undef"}
  \/ lengthsMatchThrows(data)
  \/ \E s \in SectionSet : validateEntityPresenceThrows(Get(data, s), watershedKey(s))

\* Math.round(x / y) for non-negative x and positive y
Round(x, y) == (2 * x + y) \div (2 * y)

\* the ratio rounded before it is scaled to a percentage
calculateConfidence_roundFirst(validation) ==
  IF validation.totalChecks = 0 THEN 0
  ELSE Round(validation.passedChecks, validation.totalChecks) * 100

calculateConfidence(validation) ==
  IF validation.totalChecks = 0 THEN 0
  ELSE Round(validation.passedChecks * 100, validation.totalChecks)

(***************************************************************************)
(* Document classifier: DocumentTypes, identifyDocumentType and the part   *)
(* of preprocessDocument the extractor's result is built from              *)
(***************************************************************************)

WATERSHED_PLAN ==
  Str(<<"w", "a", "t", "e", "r", "s", "h", "e", "d", "_", "p", "l", "a", "n">>)

ENVIRONMENTAL_ASSESSMENT ==
  Str(<<"e", "n", "v", "i", "r", "o", "n", "m", "e", "n", "t", "a", "l", "_", "a", "s", "s", "e", "s", "s", "m", "e", "n", "t">>)

AGRICULTURAL_REPORT ==
  Str(<<"a", "g", "r", "i", "c", "u", "l", "t", "u", "r", "a", "l", "_", "r", "e", "p", "o", "r", "t">>)

CONSERVATION_PLAN ==
  Str(<<"c", "o", "n", "s", "e", "r", "v", "a", "t", "i", "o", "n", "_", "p", "l", "a", "n">>)

REGULATORY_DOCUMENT ==
  Str(<<"r", "e", "g", "u", "l", "a", "t", "o", "r", "y", "_", "d", "o", "c", "u", "m", "e", "n", "t">>)

CLIMATE_STUDY ==
  Str(<<"c", "l", "i", "m", "a", "t", "e", "_", "s", "t", "u", "d", "y">>)

GENERAL ==
  Str(<<"g", "e", "n", "e", "r", "a", "l", "_", "e", "n", "v", "i", "r", "o", "n", "m", "e", "n", "t", "a", "l">>)

\* Object.values(DocumentTypes)
DocumentTypes ==
  {WATERSHED_PLAN, ENVIRONMENTAL_ASSESSMENT, AGRICULTURAL_REPORT, CONSERVATION_PLAN,
   REGULATORY_DOCUMENT, CLIMATE_STUDY, GENERAL}

\* the keyword patterns in their declared order, each the set of the literal
\* alternatives of its regular expression (all carry the i flag)
patterns ==
  <<[type |-> WATERSHED_PLAN,
     alternatives |->
       {<<"w", "a", "t", "e", "r", "s", "h", "e", "d">>,
        <<"w", "a", "t", "e", "r", " ", "q", "u", "a", "l", "i", "t", "y">>,
        <<"h", "y", "d", "r", "o", "l", "o", "g", "i", "c">>,
        <<"w", "a", "t", "e", "r", "s", "h", "e", "d", " ", "m", "a", "n", "a", "g", "e", "m", "e", "n", "t", " ", "p", "l", "a", "n">>,
        <<"b", "a", "s", "i", "n", " ", "p", "l", "a", "n">>}],
    [type |-> ENVIRONMENTAL_ASSESSMENT,
     alternatives |->
       {<<"e", "n", "v", "i", "r", "o", "n", "m", "e", "n", "t", "a", "l", " ", "a", "s", "s", "e", "s", "s", "m", "e", "n", "t">>,
        <<"i", "m", "p", "a", "c", "t", " ", "s", "t", "a", "t", "e", "m", "e", "n", "t">>,
        <<"e", "n", "v", "i", "r", "o", "n", "m", "e", "n", "t", "a", "l", " ", "e", "f", "f", "e", "c", "t", "s">>,
        <<"m", "i", "t", "i", "g", "a", "t", "i", "o", "n", " ", "m", "e", "a", "s", "u", "r", "e", "s">>}],
    [type |-> AGRICULTURAL_REPORT,
     alternatives |->
       {<<"c", "r", "o", "p", " ", "p", "r", "o", "d", "u", "c", "t", "i", "o", "n">>,
        <<"a", "g", "r", "i", "c", "u", "l", "t", "u", "r", "a", "l">>,
        <<"y", "i", "e", "l", "d">>,
        <<"f", "a", "r", "m", " ", "m", "a", "n", "a", "g", "e", "m", "e", "n", "t">>,
        <<"l", "i", "v", "e", "s", "t", "o", "c", "k">>,
        <<"i", "r", "r", "i", "g", "a", "t", "i", "o", "n">>}],
    [type |-> CONSERVATION_PLAN,
     alternatives |->
       {<<"c", "o", "n", "s", "e", "r", "v", "a", "t", "i", "o", "n">>,
        <<"h", "a", "b", "i", "t", "a", "t">>,
        <<"s", "p", "e", "c", "i", "e", "s">>,
        <<"w", "i", "l", "d", "l", "i", "f", "e">>,
        <<"p", "r", "o", "t", "e", "c", "t", "e", "d", " ", "a", "r", "e", "a">>,
        <<"b", "i", "o", "d", "i", "v", "e", "r", "s", "i", "t", "y">>,
        <<"p", "r", "e", "s", "e", "r", "v", "a", "t", "i", "o", "n">>}],
    [type |-> REGULATORY_DOCUMENT,
     alternatives |->
       {<<"c", "o", "m", "p", "l", "i", "a", "n", "c", "e">>,
        <<"r", "e", "g", "u", "l", "a", "t", "i", "o", "n">>,
        <<"p", "e", "r", "m", "i", "t">>,
        <<"s", "t", "a", "n", "d", "a", "r", "d">>,
        <<"r", "e", "q", "u", "i", "r", "e", "m", "e", "n", "t">>,
        <<"l", "a", "w">>,
        <<"a", "c", "t">>,
        <<"s", "t", "a", "t", "u", "t", "e">>}],
    [type |-> CLIMATE_STUDY,
     alternatives |->
       {<<"c", "l", "i", "m", "a", "t", "e", " ", "c", "h", "a", "n", "g", "e">>,
        <<"g", "l", "o", "b", "a", "l", " ", "w", "a", "r", "m", "i", "n", "g">>,
        <<"g", "r", "e", "e", "n", "h", "o", "u", "s", "e", " ", "g", "a", "s">>,
        <<"e", "m", "i", "s", "s", "i", "o", "n">>,
        <<"c", "a", "r", "b", "o", "n">>,
        <<"t", "e", "m", "p", "e", "r", "a", "t", "u", "r", "e">>,
        <<"p", "r", "e", "c", "i", "p", "i", "t", "a", "t", "i", "o", "n", " ", "p", "a", "t", "t", "e", "r", "n">>}]>>

\* pattern.test(text) for an alternation of literals
patternTest(alternatives, text) == \E a \in alternatives : RegExpTest(a, text)

\* the loop over Object.entries(patterns), from entry i on
RECURSIVE firstMatch(_, _)
firstMatch(text, i) ==
  IF i > Len(patterns) THEN GENERAL
  ELSE IF patternTest(patterns[i].alternatives, text) THEN patterns[i].type
  ELSE firstMatch(text, i + 1)

\* a loop that keeps going after a match and so returns the last type that matches
identifyDocumentType_lastMatch(text) ==
  LET matching == {i \in 1..Len(patterns) : patternTest(patterns[i].alternatives, text)}
  IN IF matching = {} THEN GENERAL ELSE patterns[Max(matching)].type

identifyDocumentType(text) == firstMatch(text, 1)

\* extractDocumentMetadata, on the field the model keeps
extractDocumentMetadata(text) == [documentType |-> identifyDocumentType(text)]

\* preprocessDocument, on the fields the model keeps
preprocessDocument(text) ==
  [documentType |-> identifyDocumentType(text),
   metadata |-> extractDocumentMetadata(text)]

\* String.prototype.replace with a string pattern: the first occurrence only
RECURSIVE ReplaceFirst(_, _, _)
ReplaceFirst(s, c, d) ==
  IF s = <<>> THEN <<>>
  ELSE IF Head(s) = c THEN <<d>> \o Tail(s)
  ELSE <<Head(s)>> \o ReplaceFirst(Tail(s), c, d)

\* preprocessed.documentType.replace is no function unless the type is a string
createPromptByDocTypeThrows(preprocessed) == preprocessed.documentType.t # "str"

\* createPromptByDocType, on what the prompt says about the type of the document
createPromptByDocType(preprocessed) ==
  [about |-> ReplaceFirst(preprocessed.documentType.v, "_", " ")]

(***************************************************************************)
(* Inputs: the source text, the identifying strings, the entities and the  *)
(* records an LLM reply can carry                                          *)
(***************************************************************************)

\* the source document of the request
SourceText == <<"a", "b", " ", "b", "a", ",", " ", " ", "a", "b", "7">>

\* six characters, an exact substring of the source
sExact == <<"a", "b", " ", "b", "a", ",">>

\* found only through the i flag
sCase == <<"A", "B", " ", "B", "A", ",">>

\* found only through the flexible whitespace
sSpace == <<"b", "a", ",", " ", "a", "b">>

\* found only through the flexible punctuation
sPunct == <<"b", "a", ";", " ", "a", "b", "7">>

\* found after trim
sPadded == <<" ", "a", "b", " ", "b", "a", ",", "\n">>

\* not in the source
sAbsent == <<"b", "b", " ", "a", "b", "7">>

\* three characters, an exact substring
sShort == <<"a", "b", "7">>

\* five characters, in the source only up to case
sShortCase == <<"A", "B", " ", "B", "A">>

\* two characters, not in the source
sShortAbsent == <<"b", "b">>

\* holds an unbalanced parenthesis
sParen == <<"a", "b", " ", "(", "b", "a", ",">>

\* whitespace only
sBlank == <<" ", " ">>

Goal(description) == [t |-> "obj", description |-> description]

Named(name) == [t |-> "obj", name |-> name]

\* an entity of the watershed schema: identified by activity
Activity(activity) == [t |-> "obj", activity |-> activity]

\* an entity of the watershed schema: identified by metric
Metric(metric) == [t |-> "obj", metric |-> metric]

NamedActivity(name, activity) == [t |-> "obj", name |-> name, activity |-> activity]

PlainObject == [t |-> "obj"]

EmptyArray == Arr(<<>>)

\* what a reply can put in a section, other than the empty array
SectionValues(section) ==
  CASE section = "goals" ->
         {Undef, Null,
          Arr(<<Goal(Str(sExact))>>),
          Arr(<<Goal(Str(sAbsent))>>),
          Arr(<<Goal(Str(sExact)), Goal(Str(sAbsent))>>),
          Arr(<<Goal(Str(sParen))>>),
          Arr(<<Null, Goal(Str(sCase))>>)}
    [] section = "bmps" ->
         {Undef, PlainObject,
          Arr(<<Named(Str(sShort))>>),
          Arr(<<Named(Str(sShortCase))>>),
          Arr(<<Named(Num(7))>>),
          Arr(<<Named(Str(sSpace)), Named(Str(sShortAbsent))>>),
          Arr(<<Named(Str(sPadded))>>)}
    [] section = "implementation" ->
         {Null,
          Arr(<<Named(Str(sExact))>>),
          Arr(<<Activity(Str(sExact))>>),
          Arr(<<NamedActivity(Str(sAbsent), Str(sExact))>>),
          Arr(<<Named(Str(sBlank))>>)}
    [] section = "monitoring" ->
         {Undef,
          Arr(<<Named(Str(sPunct))>>),
          Arr(<<Metric(Str(sExact))>>),
          Arr(<<Named(Str(sParen))>>)}
    [] section = "outreach" ->
         {Null,
          Arr(<<Activity(Str(sAbsent))>>),
          Arr(<<Named(Str(sCase)), Null>>),
          Arr(<<Named(Num(5))>>)}
    [] OTHER ->
         {Undef,
          Arr(<<Named(Str(sExact))>>),
          Arr(<<Named(Str(sAbsent))>>),
          Arr(<<Named(Str(sShortAbsent))>>),
          Arr(<<Named(Num(0))>>)}

Summary(totalGoals, totalBMPs) ==
  [t |-> "obj", totalGoals |-> totalGoals, totalBMPs |-> totalBMPs]

Summaries ==
  {Undef, Null,
   Summary(Num(0), Num(0)), Summary(Num(1), Num(0)), Summary(Num(1), Num(1)),
   Summary(Num(2), Num(1)), Summary(Undef, Num(1)), Summary(Num(-1), Num(0))}

\* a reply fills at most this many sections with something else than an empty array
MaxFilled == 2

\* the record whose sections in F hold the values v and the others the empty array
Record(summary, F, v) ==
  [t |-> "obj",
   summary |-> summary,
   goals |-> IF "goals" \in F THEN v["goals"] ELSE EmptyArray,
   bmps |-> IF "bmps" \in F THEN v["bmps"] ELSE EmptyArray,
   implementation |-> IF "implementation" \in F THEN v["implementation"] ELSE EmptyArray,
   monitoring |-> IF "monitoring" \in F THEN v["monitoring"] ELSE EmptyArray,
   outreach |-> IF "outreach" \in F THEN v["outreach"] ELSE EmptyArray,
   geographicAreas |-> IF "geographicAreas" \in F THEN v["geographicAreas"] ELSE EmptyArray]

\* the ways to fill the sections of F, each from its own values
Fillings(F) ==
  {v \in [F -> UNION {SectionValues(s) : s \in F}] :
     \A s \in F : v[s] \in SectionValues(s)}

\* the records with at most n sections filled
Records(n) ==
  {Record(c[1], DOMAIN c[2], c[2]) :
     c \in Summaries
           \X UNION {Fillings(F) : F \in {G \in SUBSET SectionSet : Cardinality(G) <= n}}}

\* the texts a caller submits: none, empty, whitespace only, a document
Texts == {Undef, Str(<<>>), Str(<<" ", "\n">>), Str(SourceText)}

\* the replies of the LLM, as token sequences
Replies ==
  {<<"{", "m", "}">>,
   <<Fence, JsonTag, "\n", "{", "m", "}", "\n", Fence>>,
   <<Fence, "{", "m", "}", Fence>>,
   <<"p", " ", "{", "m", "}", " ", "p">>,
   <<"p", "{", "}", " ", "{", "m", "}">>,
   <<"{", "m", "}", " ", "p", "}">>,
   <<Fence, "p", Fence, " ", "{", "m", "}">>,
   <<"{", "}">>,
   <<"{", "m">>,
   <<"p">>,
   <<>>,
   <<"n">>, <<"s">>, <<"a">>, <<"null">>,
   <<"p", " ", "n">>}

\* the reply that is the JSON object alone
BareReply == <<"{", "m", "}">>

\* what the provider's SDK rejects with
ProviderMessages == {"429 rate limit reached", "401 invalid api key"}

\* the value a parsed text denotes; the members "m" of the outermost object stand
\* for the members of payload
Decode(toks, payload) ==
  CASE toks = <<"n">> -> Num(42)
    [] toks = <<"s">> -> Str(<<"a", "b">>)
    [] toks = <<"a">> -> Arr(<<Num(1)>>)
    [] toks = <<"null">> -> Null
    [] OTHER ->
         IF \E i \in 1..Len(toks) :
              /\ toks[i] = "m"
              /\ Cardinality({j \in 1..(i - 1) : toks[j] = "{"})
                 - Cardinality({j \in 1..(i - 1) : toks[j] = "}"}) = 1
         THEN payload ELSE PlainObject

(***************************************************************************)
(* The extraction handlers                                                 *)
(***************************************************************************)

VARIABLES
  pc,        \* "idle", "llm" (awaiting the completion), "analysis", "done"
  entry,     \* the function or route the caller invoked
  text,      \* the text submitted
  apiKey,    \* process.env.GROQ_API_KEY is set
  response,  \* what the completion call settled with
  llmCalls,  \* calls of groq.chat.completions.create made by the extractor
  stages,    \* the steps of the extractor entered so far, in order
  outcome,   \* what the extractor returned or threw
  http,      \* the response the route sent
  options,   \* the options the extractor was called with
  preprocessed, \* preprocessDocument(text), after the override of its type
  prompt,    \* what the prompt says about the type of the document
  file,      \* the temporary file of an upload: "none", "temp", "unlinked"
  form,      \* response parser: how the reply wraps the object
  json,      \* response parser: the JSON object the reply was composed around
  prose,     \* response parser: the prose before and after the object
  reply,     \* response parser: the reply
  recovered, \* response parser: what the parser made of the reply
  env,       \* concurrent calls: process.env.GROQ_API_KEY is set
  requests,  \* concurrent calls: the local bindings of each call
  calls,     \* concurrent calls: the calls and settlements so far, in order
  extractedRecord, \* accuracy harness: the extracted record handed to measureAccuracy
  groundTruth,   \* accuracy harness: the manually verified record
  accuracy,       \* accuracy harness: what measureAccuracy returned
  chunkInput,  \* chunking: the text handed to chunkText
  maxChunkSize,  \* chunking: the size handed to chunkText, 0 before the call
  chunks,  \* chunking: what chunkText returned
  batchPc,  \* accuracy batch: "idle", "running", "done", "exited"
  pdfOnly,  \* accuracy batch: settings.pdfOnly
  totalFiles,  \* accuracy batch: testFiles.length
  fates,  \* accuracy batch: what befell each file processed so far
  testResults,  \* accuracy batch: the results object
  passed,  \* accuracy batch: the verdict
  reportClock,  \* report store: the time, in hours
  reportCache,  \* report store: the entry under each report id
  reportReply,  \* report store: the answer to the last request
  uploadPc,  \* upload routes: "idle", a step of the handler, "unlink", "answered"
  uploadRoute,  \* upload routes: the route of the request in hand
  uploadSeq,  \* upload routes: requests so far; the path of the file in hand
  written,  \* upload routes: the paths multer wrote to disk
  unlinked,  \* upload routes: the paths fs.unlink was called on
  uploadStatus  \* upload routes: the status of the last answer

extractorVars ==
  <<pc, entry, text, apiKey, response, llmCalls, stages, outcome, http,
    options, preprocessed, prompt, file>>

parserVars == <<form, json, prose, reply, recovered>>

concurrentVars == <<env, requests, calls>>

accuracyVars == <<extractedRecord, groundTruth, accuracy>>

chunkVars == <<chunkInput, maxChunkSize, chunks>>

batchVars == <<batchPc, pdfOnly, totalFiles, fates, testResults, passed>>

reportVars == <<reportClock, reportCache, reportReply>>

uploadVars == <<uploadPc, uploadRoute, uploadSeq, written, unlinked, uploadStatus>>

vars == <<extractorVars, parserVars, concurrentVars, accuracyVars, chunkVars,
    batchVars, reportVars, uploadVars>>

\* what the actions of one part of the model leave alone
besidesExtractor == <<parserVars, concurrentVars, accuracyVars, chunkVars,
    batchVars, reportVars, uploadVars>>

besidesParser == <<extractorVars, concurrentVars, accuracyVars, chunkVars,
    batchVars, reportVars, uploadVars>>

besidesConcurrent == <<extractorVars, parserVars, accuracyVars, chunkVars,
    batchVars, reportVars, uploadVars>>

besidesAccuracy == <<extractorVars, parserVars, concurrentVars, chunkVars,
    batchVars, reportVars, uploadVars>>

besidesChunk == <<extractorVars, parserVars, concurrentVars, accuracyVars,
    batchVars, reportVars, uploadVars>>

besidesBatch == <<extractorVars, parserVars, concurrentVars, accuracyVars,
    chunkVars, reportVars, uploadVars>>

besidesReport == <<extractorVars, parserVars, concurrentVars, accuracyVars,
    chunkVars, batchVars, uploadVars>>

besidesUpload == <<extractorVars, parserVars, concurrentVars, accuracyVars,
    chunkVars, batchVars, reportVars>>

Entries == {"extractDocumentData", "extractWatershedData", "process-text", "extract"}

\* POST /api/documents/process-text and POST /api/documents/extract
Routes == {"process-text", "extract"}

NoTextMsg == "No text provided for extraction"

ApiKeyMsg == "GROQ_API_KEY not found in environment variables"

ParseFailMsg == "Failed to parse structured data from LLM response"

\* the TypeError of chatCompletion.choices[0].message on an empty choices list
NoChoiceMsg == "Cannot read properties of undefined (reading 'message')"

\* the TypeError of createPromptByDocType on a type that is no string
NoReplaceMsg == "preprocessed.documentType.replace is not a function"

NoFileMsg == "No PDF file uploaded"

\* what extractTextFromPDF rejects with
PdfErrorMsg == "Failed to extract text from PDF"

None == [kind |-> "none"]

\* the outer catch: throw new Error(`... extraction failed: ${error.message}`);
\* the Error's message is prefix followed by message
Rethrown(e, message) ==
  [kind |-> "error",
   prefix |-> IF e = "extractWatershedData"
              THEN "Watershed data extraction failed: "
              ELSE "Document data extraction failed: ",
   message |-> message]

\* the guard without its whitespace test
textMissing_noTrim(t) == ~Truthy(t)

\* !text || text.trim().length === 0
textMissing(t) == ~Truthy(t) \/ Trim(t.v) = <<>>

\* a type that drops the caller's
overrideDocumentType_ignored(pre, opts) == pre

\* if (options.documentType) preprocessed.documentType = options.documentType
overrideDocumentType(pre, opts) ==
  IF Truthy(opts.documentType)
  THEN [pre EXCEPT !.documentType = opts.documentType]
  ELSE pre

\* the synchronous part of the extractor, up to the await of the completion call:
\* the steps entered, the preprocessed document, the prompt, and the error thrown if
\* one is
beforeCall(e, t, opts, key) ==
  IF textMissing(t)
  THEN [stages |-> <<"input">>, outcome |-> Rethrown(e, NoTextMsg),
        preprocessed |-> None, prompt |-> None]
  ELSE LET pre == IF e = "extractWatershedData" THEN None
                  ELSE overrideDocumentType(preprocessDocument(t.v), opts) IN
  IF ~key
  THEN [stages |-> <<"input", "preprocess", "apiKey">>,
        outcome |-> Rethrown(e, ApiKeyMsg), preprocessed |-> pre, prompt |-> None]
  ELSE IF e # "extractWatershedData" /\ createPromptByDocTypeThrows(pre)
  THEN [stages |-> <<"input", "preprocess", "apiKey", "prompt">>,
        outcome |-> Rethrown(e, NoReplaceMsg), preprocessed |-> pre, prompt |-> None]
  ELSE [stages |-> <<"input", "preprocess", "apiKey", "prompt", "llm">>,
        outcome |-> None,
        preprocessed |-> pre,
        prompt |-> IF e = "extractWatershedData" THEN None
                   ELSE createPromptByDocType(pre)]

\* a catch that drops the provider's message
onReject_generic(e, message) == Rethrown(e, "LLM request failed")

\* the completion call rejected: the outer catch rethrows the provider's error
onReject(e, message) == Rethrown(e, message)

\* the inner try block of extractDocumentData: parse, filter, validate, score
documentParse(content, payload, originalText, pre) ==
  IF content.t = "null" \/ JSONparseThrows(jsonContent(content.v))
  THEN [stages |-> <<"parse">>, outcome |-> Rethrown("extractDocumentData", ParseFailMsg)]
  ELSE LET parsed == Decode(JSONparse(jsonContent(content.v)), payload) IN
  IF filterNonPresentEntitiesThrows(parsed)
  THEN [stages |-> <<"parse", "filter">>,
        outcome |-> Rethrown("extractDocumentData", ParseFailMsg)]
  ELSE LET extractedData == filterNonPresentEntities(parsed, originalText) IN
  IF validateExtractedData_documentThrows(extractedData)
  THEN [stages |-> <<"parse", "filter", "validate">>,
        outcome |-> Rethrown("extractDocumentData", ParseFailMsg)]
  ELSE LET validation == validateExtractedData_document(extractedData, originalText) IN
       [stages |-> <<"parse", "filter", "validate", "score">>,
        outcome |-> [kind |-> "result",
                     data |-> extractedData,
                     metadata |-> pre.metadata,
                     documentType |-> pre.documentType,
                     validation |-> validation,
                     confidence |-> calculateConfidence(validation)]]

\* the inner try block of extractWatershedData: parse, validate, score
watershedParse(content, payload, originalText) ==
  IF content.t = "null" \/ JSONparseThrows(jsonContent(content.v))
  THEN [stages |-> <<"parse">>, outcome |-> Rethrown("extractWatershedData", ParseFailMsg)]
  ELSE LET extractedData == Decode(JSONparse(jsonContent(content.v)), payload) IN
  IF validateExtractedData_watershedThrows(extractedData)
  THEN [stages |-> <<"parse", "validate">>,
        outcome |-> Rethrown("extractWatershedData", ParseFailMsg)]
  ELSE LET validation == validateExtractedData_watershed(extractedData, originalText) IN
       [stages |-> <<"parse", "validate", "score">>,
        outcome |-> [kind |-> "result",
                     data |-> extractedData,
                     validation |-> validation,
                     confidence |-> calculateConfidence(validation)]]

\* the rest of the extractor once the completion call resolved
afterCall(e, r, originalText, pre) ==
  IF r.kind = "noChoices"
  THEN [stages |-> <<"choices">>, outcome |-> Rethrown(e, NoChoiceMsg)]
  ELSE LET run == IF e = "extractWatershedData"
                  THEN watershedParse(r.content, r.payload, originalText)
                  ELSE documentParse(r.content, r.payload, originalText, pre)
       IN [stages |-> <<"choices">> \o run.stages, outcome |-> run.outcome]

\* the 400 of the routes
BadRequest(message) == [status |-> 400, success |-> FALSE, error |-> message]

\* the catch of the routes
ServerError(error) ==
  [status |-> 500, success |-> FALSE, error |-> error.prefix \o error.message]

\* confidence below this is reported with a warning
LowConfidence == 75

\* bmp.name || 'Unnamed BMP', on a copy of the entity
withDefaultName(bmp) ==
  [k \in DOMAIN bmp \cup {"name"} |->
     IF k = "name" THEN OrElse(Get(bmp, "name"), Str(<<"U", "n", "n", "a", "m", "e", "d", " ", "B", "M", "P">>)) ELSE bmp[k]]

\* fillMissingValues, on the fields the model keeps
fillMissingValues(data) ==
  IF ~Truthy(data) \/ data.t # "obj" THEN data
  ELSE [k \in DOMAIN data |->
          IF k = "summary" /\ Truthy(data[k]) /\ data[k].t = "obj"
          THEN [f \in DOMAIN data[k] \cup {"totalGoals", "totalBMPs"} |->
                  IF f \in {"totalGoals", "totalBMPs"}
                  THEN OrElse(Get(data[k], f), Num(0)) ELSE data[k][f]]
          ELSE IF k = "bmps" /\ data[k].t = "arr"
          THEN Arr([i \in 1..Len(data[k].v) |-> withDefaultName(data[k].v[i])])
          ELSE data[k]]

\* a threshold that takes the confidence LowConfidence itself for low
Ok_inclusive(result, analysed) ==
  [status |-> 200,
   success |-> TRUE,
   warning |-> result.confidence <= LowConfidence,
   confidence |-> result.confidence,
   documentType |-> result.documentType,
   data |-> fillMissingValues(result.data),
   findings |-> analysed /\ ~(result.confidence <= LowConfidence)]

\* the 200 of the routes: below LowConfidence with the warning and the validation,
\* otherwise with the fields of the summary analysis
Ok(result, analysed) ==
  [status |-> 200,
   success |-> TRUE,
   warning |-> result.confidence < LowConfidence,
   confidence |-> result.confidence,
   documentType |-> result.documentType,
   data |-> fillMissingValues(result.data),
   findings |-> analysed /\ ~(result.confidence < LowConfidence)]

\* documents for the classifier; SourceText matches no pattern
\* watershed_plan before regulatory_document
dBasinAct ==
  <<"B", "a", "s", "i", "n", " ", "P", "l", "a", "n", " ", "a", "c", "t">>

\* environmental_assessment before regulatory_document (act)
dImpact ==
  <<"i", "m", "p", "a", "c", "t", " ", "s", "t", "a", "t", "e", "m", "e", "n", "t">>

\* agricultural_report before regulatory_document
dYieldLaw ==
  <<"C", "r", "o", "p", " ", "y", "i", "e", "l", "d", " ", "l", "a", "w">>

\* conservation_plan before climate_study
dWildlife ==
  <<"w", "i", "l", "d", "l", "i", "f", "e", " ", "e", "m", "i", "s", "s", "i", "o", "n">>

\* regulatory_document before climate_study
dPermit ==
  <<"c", "a", "r", "b", "o", "n", " ", "p", "e", "r", "m", "i", "t">>

\* climate_study only
dCarbon ==
  <<"C", "A", "R", "B", "O", "N">>

\* conservation_plan only
dHabitat ==
  <<"h", "a", "b", "i", "t", "a", "t">>

KeywordTexts == {Str(d) : d \in {dBasinAct, dImpact, dYieldLaw, dWildlife, dPermit, dCarbon, dHabitat}}

\* what a caller passes as documentType: nothing, null, the empty string, two types
\* of the enumeration, a string outside of it, a number
TypeOptions ==
  {Undef, Null, Str(<<>>), WATERSHED_PLAN, CLIMATE_STUDY,
   Str(<<"s", "o", "i", "l", "_", "s", "u", "r", "v", "e", "y">>), Num(7)}

\* the (text, documentType) pairs of the requests: the texts without a type, the
\* classifier's documents with every type option
Requests == (Texts \X {Undef}) \cup (KeywordTexts \X TypeOptions)

\* the texts extractTextFromPDF resolves with: empty, whitespace only, one of the
\* classifier's documents
UploadedTexts == {Str(<<>>), Str(<<" ", "\n">>)} \cup KeywordTexts

\* the calls of extractDocumentData in flight at a time
MaxCalls == 2

\* the bindings of a call that has not been made
NotCalled ==
  [pc |-> "idle", text |-> Undef, options |-> [documentType |-> Undef],
   preprocessed |-> None, response |-> None, outcome |-> None]

\* nothing has been called yet
Idle ==
  /\ pc = "idle"
  /\ entry = "extractDocumentData"
  /\ text = Undef
  /\ apiKey = FALSE
  /\ response = None
  /\ llmCalls = 0
  /\ stages = <<>>
  /\ outcome = None
  /\ http = None
  /\ options = [documentType |-> Undef]
  /\ preprocessed = None
  /\ prompt = None
  /\ file = "none"
  /\ form = "none"
  /\ json = <<>>
  /\ prose = <<<<>>, <<>>>>
  /\ reply = <<>>
  /\ recovered = None
  /\ requests = [i \in 1..MaxCalls |-> NotCalled]
  /\ calls = <<>>
  /\ chunkInput = <<>>
  /\ maxChunkSize = 0
  /\ chunks = <<>>
  /\ batchPc = "idle"
  /\ pdfOnly = FALSE
  /\ totalFiles = 0
  /\ fates = <<>>
  /\ testResults = None
  /\ passed = FALSE
  /\ reportClock = 0
  /\ reportCache = <<>>
  /\ reportReply = None
  /\ uploadPc = "idle"
  /\ uploadRoute = "none"
  /\ uploadSeq = 0
  /\ written = {}
  /\ unlinked = {}
  /\ uploadStatus = 0

\* measureAccuracy has not been handed anything
NoMeasurement == extractedRecord = Null /\ groundTruth = Null /\ accuracy = None

Init == Idle /\ env = TRUE /\ NoMeasurement

\* the request never reaches the extractor: the route answers at once
Answered(e, t, status) ==
  /\ entry' = e
  /\ text' = t
  /\ apiKey' = FALSE
  /\ http' = status
  /\ pc' = "done"
  /\ UNCHANGED <<llmCalls, stages, outcome, options, preprocessed, prompt>>

\* a caller invokes an extractor, or posts to a route: /process-text checks the text
\* itself before it calls extractDocumentData, /extract checks the upload and reads
\* the text of the PDF
Call ==
  /\ pc = "idle"
  /\ \/ /\ file' = "none"
        /\ \/ Answered("extract", Undef, BadRequest(NoFileMsg))
           \/ \E t \in {u \in Texts : textMissing(u)} :
                Answered("process-text", t, BadRequest(NoTextMsg))
     \/ /\ file' = "temp"
        /\ Answered("extract", Undef,
                    ServerError([prefix |-> "", message |-> PdfErrorMsg]))
     \/ \E e \in Entries, rq \in Requests, key \in BOOLEAN :
          LET t == rq[1]
              opts == [documentType |-> IF e \in Routes THEN OrElse(rq[2], Null)
                                       ELSE rq[2]]
              run == beforeCall(e, t, opts, key)
          IN /\ e = "extractWatershedData" => rq[2] = Undef
             /\ e = "process-text" => ~textMissing(t)
             /\ e = "extract" => t \in UploadedTexts
             /\ entry' = e
             /\ text' = t
             /\ apiKey' = key
             /\ options' = opts
             /\ file' = IF e = "extract" THEN "temp" ELSE "none"
             /\ stages' = run.stages
             /\ outcome' = run.outcome
             /\ preprocessed' = run.preprocessed
             /\ prompt' = run.prompt
             /\ IF run.outcome.kind = "error"
                THEN /\ pc' = "done"
                     /\ UNCHANGED llmCalls
                     /\ http' = IF e \in Routes THEN ServerError(run.outcome) ELSE http
                ELSE /\ pc' = "llm"
                     /\ llmCalls' = llmCalls + 1
                     /\ UNCHANGED http
  /\ UNCHANGED response
  /\ UNCHANGED besidesExtractor

\* the completion call rejects (network, auth, rate limit)
LLMRejects ==
  /\ pc = "llm"
  /\ \E message \in ProviderMessages :
       /\ response' = [kind |-> "rejected", message |-> message]
       /\ outcome' = onReject(entry, message)
       /\ http' = IF entry \in Routes
                  THEN ServerError(onReject(entry, message)) ELSE http
  /\ stages' = stages \o <<"rejected">>
  /\ pc' = "done"
  /\ UNCHANGED <<entry, text, apiKey, llmCalls, options, preprocessed, prompt, file>>
  /\ UNCHANGED besidesExtractor

\* a record with a top-level key besides the summary and the sections
WithTitle(record) == ("title" :> Str(<<"a", "b", "7">>)) @@ record

\* replies whose record holds more, or less, than the summary and the sections
OtherKeyResponses ==
  {[kind |-> "reply", content |-> Str(BareReply), payload |-> d] :
     d \in {WithTitle(Record(Summary(Num(1), Num(0)), {"goals"},
                             [s \in {"goals"} |->
                                Arr(<<Goal(Str(sAbsent)), Goal(Str(sCase)),
                                      Goal(Str(sExact))>>)])),
            WithTitle([t |-> "obj", summary |-> Summary(Num(0), Num(0)),
                       bmps |-> Arr(<<Named(Str(sShortAbsent)), Named(Str(sShort))>>)])}}

\* what a completion call can resolve with
Responses ==
  {[kind |-> "noChoices"], [kind |-> "reply", content |-> Null, payload |-> Null]}
  \cup {[kind |-> "reply", content |-> Str(BareReply), payload |-> d] : d \in Records(MaxFilled)}
  \cup {[kind |-> "reply", content |-> Str(c), payload |-> d] :
          c \in Replies \ {BareReply}, d \in Records(0)}
  \cup OtherKeyResponses

\* the replies to the classifier's documents: the bare object with empty sections
KeywordResponses ==
  {[kind |-> "noChoices"]}
  \cup {[kind |-> "reply", content |-> Str(BareReply), payload |-> d] : d \in Records(0)}

\* the completion call resolves and the extractor runs to its end
LLMResolves ==
  /\ pc = "llm"
  /\ \E r \in IF text \in KeywordTexts THEN KeywordResponses ELSE Responses :
       \E run \in {afterCall(entry, r, text.v, preprocessed)} :
       /\ response' = r
       /\ stages' = stages \o run.stages
       /\ outcome' = run.outcome
       /\ IF entry \notin Routes
          THEN pc' = "done" /\ UNCHANGED http
          ELSE IF run.outcome.kind = "error"
               THEN pc' = "done" /\ http' = ServerError(run.outcome)
               ELSE pc' = "analysis" /\ UNCHANGED http
  /\ UNCHANGED <<entry, text, apiKey, llmCalls, options, preprocessed, prompt, file>>
  /\ UNCHANGED besidesExtractor

\* analyzeWithGroq settles (a failure is swallowed), /extract unlinks the upload,
\* and the route answers
AnalysisSettles ==
  /\ pc = "analysis"
  /\ \E analysed \in BOOLEAN : http' = Ok(outcome, analysed)
  /\ file' = IF entry = "extract" THEN "unlinked" ELSE file
  /\ pc' = "done"
  /\ UNCHANGED <<entry, text, apiKey, response, llmCalls, stages, outcome,
                 options, preprocessed, prompt>>
  /\ UNCHANGED besidesExtractor

Next == Call \/ LLMRejects \/ LLMResolves \/ AnalysisSettles

Spec == Init /\ [][Next]_vars

(***************************************************************************)
(* The response parser on its own: replies composed around a JSON object   *)
(***************************************************************************)

\* longest JSON object text, in tokens
MaxJsonLen == 5

\* longest prose before and after the object, in tokens
MaxProseLen == 2

\* the sequences over S of length at most n
SeqsUpTo(S, n) == UNION {[1..k -> S] : k \in 0..n}

\* the texts of JSON objects
JsonObjects ==
  {toks \in SeqsUpTo({"{", "}", "m", "k"}, MaxJsonLen) : IsObjectText(toks)}

\* what prose is made of: words, braces and fence markers
ProseTokens == {"p", "{", "}", Fence}

Prose == SeqsUpTo(ProseTokens, MaxProseLen)

Forms == {"alone", "fence", "json fence", "prose"}

\* the reply of form f around object J, with prose before and after for "prose"
Compose(f, J, before, after) ==
  CASE f = "alone" -> J
    [] f = "fence" -> <<Fence, "\n">> \o J \o <<"\n", Fence>>
    [] f = "json fence" -> <<Fence, JsonTag, "\n">> \o J \o <<"\n", Fence>>
    [] OTHER -> before \o J \o after

\* lines 621-625 of the extractor: locate the span, JSON.parse it
parseResponse(responseContent) ==
  IF JSONparseThrows(jsonContent(responseContent))
  THEN [ok |-> FALSE, value |-> <<>>]
  ELSE [ok |-> TRUE, value |-> JSONparse(jsonContent(responseContent))]

InitParser == Init

\* the LLM answers with a reply composed around a JSON object
Reply ==
  /\ form = "none"
  /\ \E f \in Forms, J \in JsonObjects, before \in Prose, after \in Prose :
       /\ f # "prose" => before = <<>> /\ after = <<>>
       /\ form' = f
       /\ json' = J
       /\ prose' = <<before, after>>
       /\ reply' = Compose(f, J, before, after)
  /\ UNCHANGED recovered
  /\ UNCHANGED besidesParser

\* the extractor parses the reply
Parse ==
  /\ form # "none"
  /\ recovered = None
  /\ recovered' = parseResponse(reply)
  /\ UNCHANGED <<form, json, prose, reply>>
  /\ UNCHANGED besidesParser

NextParser == Reply \/ Parse

SpecParser == InitParser /\ [][NextParser]_vars

(***************************************************************************)
(* Concurrent calls of extractDocumentData: each call runs to its await,   *)
(* and continues when its completion settles, in any order                 *)
(***************************************************************************)

\* the documents, types and replies of the concurrent calls
ConcurrentTexts == {Str(SourceText), Str(dCarbon)}

ConcurrentTypes == {Undef, WATERSHED_PLAN}

ConcurrentResponses ==
  {[kind |-> "reply", content |-> Str(BareReply), payload |-> d] :
     d \in {Record(Summary(Num(0), Num(0)), {}, <<>>),
            Record(Null, {"goals"}, [s \in {"goals"} |->
                     Arr(<<Goal(Str(sExact)), Goal(Str(sAbsent))>>)])}}

\* bindings hoisted to module level: every continuation reads those of the latest
\* call
closureOf_moduleLevel(reqs, history, i) ==
  reqs[CHOOSE j \in 1..MaxCalls :
         \E n \in 1..Len(history) :
           /\ history[n] = <<"call", j>>
           /\ \A m \in (n + 1)..Len(history) : history[m][1] # "call"]

\* the bindings the continuation of call i reads: text, options and preprocessed
\* are parameters and const declarations of the call itself
closureOf(reqs, history, i) == reqs[i]

\* what extractDocumentData makes of a text, options and a settled completion on
\* its own
extractAlone(t, opts, key, r) ==
  LET before == beforeCall("extractDocumentData", t, opts, key)
  IN IF before.outcome.kind = "error" THEN before.outcome
     ELSE IF r.kind = "rejected" THEN onReject("extractDocumentData", r.message)
     ELSE afterCall("extractDocumentData", r, t.v, before.preprocessed).outcome

\* the rejection of a completion
RateLimited == [kind |-> "rejected", message |-> "429 rate limit reached"]

InitConcurrent == Idle /\ env \in BOOLEAN /\ NoMeasurement

\* call i is made, after the calls before it, and runs to the await of its
\* completion
Invoked ==
  /\ \E i \in 1..MaxCalls, t \in ConcurrentTexts, type \in ConcurrentTypes :
       /\ requests[i].pc = "idle"
       /\ \A j \in 1..(i - 1) : requests[j].pc # "idle"
       /\ \E run \in {beforeCall("extractDocumentData", t, [documentType |-> type], env)} :
         /\ requests' = [requests EXCEPT ![i] =
              [pc |-> IF run.outcome.kind = "error" THEN "done" ELSE "llm",
               text |-> t,
               options |-> [documentType |-> type],
               preprocessed |-> run.preprocessed,
               response |-> None,
               outcome |-> run.outcome]]
         /\ calls' = Append(calls, <<"call", i>>)
  /\ UNCHANGED env
  /\ UNCHANGED besidesConcurrent

\* the completion of call i resolves and its continuation runs to the end
Resolved ==
  /\ \E i \in 1..MaxCalls, r \in ConcurrentResponses :
       LET own == closureOf(requests, calls, i) IN
       /\ requests[i].pc = "llm"
       /\ requests' = [requests EXCEPT ![i] =
            [@ EXCEPT !.pc = "done",
                      !.response = r,
                      !.outcome = afterCall("extractDocumentData", r, own.text.v,
                                            own.preprocessed).outcome]]
       /\ calls' = Append(calls, <<"settle", i>>)
  /\ UNCHANGED env
  /\ UNCHANGED besidesConcurrent

\* the completion of call i rejects
Rejected ==
  /\ \E i \in 1..MaxCalls :
       /\ requests[i].pc = "llm"
       /\ requests' = [requests EXCEPT ![i] =
            [@ EXCEPT !.pc = "done",
                      !.response = RateLimited,
                      !.outcome = onReject("extractDocumentData", RateLimited.message)]]
       /\ calls' = Append(calls, <<"settle", i>>)
  /\ UNCHANGED env
  /\ UNCHANGED besidesConcurrent

NextConcurrent == Invoked \/ Resolved \/ Rejected

SpecConcurrent == InitConcurrent /\ [][NextConcurrent]_vars

(***************************************************************************)
(* Accuracy harness: stringSimilarity and measureAccuracy.  A number that  *)
(* need not be an integer is an exact fraction num / den.                  *)
(***************************************************************************)

Ratio(num, den) == [num |-> num, den |-> den]

RatioEq(a, b) == a.num * b.den = b.num * a.den

RatioSum(a, b) == Ratio(a.num * b.den + b.num * a.den, a.den * b.den)

\* String.prototype.toLowerCase
toLowerCase(s) == [i \in 1..Len(s) |-> Fold(s[i])]

\* strings shorter than this are compared exactly
ShortStringLen == 5

\* the value of a cell, computed once before the loop goes on
Cell(S) == CHOOSE x \in S : TRUE

\* row i of the distance matrix from row i - 1, column by column; row holds the
\* columns 0..j-1 filled so far
RECURSIVE BuildRow(_, _, _, _, _)
BuildRow(prev, c, str2, j, row) ==
  IF j > Len(str2) THEN row
  ELSE LET cost == IF c = str2[j] THEN 0 ELSE 1
       IN Cell({BuildRow(prev, c, str2, j + 1, Append(row, cell)) :
                  cell \in {Min({prev[j + 1] + 1, row[j] + 1, prev[j] + cost})}})

RECURSIVE FillMatrix(_, _, _, _)
FillMatrix(str1, str2, i, prev) ==
  IF i > Len(str1) THEN prev
  ELSE Cell({FillMatrix(str1, str2, i + 1, row) :
               row \in {BuildRow(prev, str1[i], str2, 1, <<i>>)}})

\* matrix[len1][len2]: the Levenshtein distance
levenshtein(str1, str2) ==
  FillMatrix(str1, str2, 1, [j \in 1..(Len(str2) + 1) |-> j - 1])[Len(str2) + 1]

stringSimilarity(str1, str2) ==
  IF ~Truthy(str1) /\ ~Truthy(str2) THEN Ratio(1, 1)
  ELSE IF ~Truthy(str1) \/ ~Truthy(str2) THEN Ratio(0, 1)
  ELSE LET a == toLowerCase(str1.v)
           b == toLowerCase(str2.v)
           maxDistance == Max({Len(a), Len(b)})
       IN IF Len(a) < ShortStringLen \/ Len(b) < ShortStringLen
          THEN (IF a = b THEN Ratio(1, 1) ELSE Ratio(0, 1))
          ELSE Ratio(maxDistance - levenshtein(a, b), maxDistance)

\* stringSimilarity(a, b) >= 0.7
similar(a, b) ==
  LET similarity == stringSimilarity(a, b) IN 10 * similarity.num >= 7 * similarity.den

\* the tracked categories
Categories == <<"goals", "bmps", "monitoring">>

\* the field a category is matched on
accuracyKey(category) ==
  CASE category = "goals" -> "description"
    [] category = "bmps" -> "name"
    [] OTHER -> "metric"

\* groundTruth.goals?.length || 0
totalOf(record, category) ==
  IF Get(record, category).t = "arr" THEN Len(Get(record, category).v) ELSE 0

\* groundTruth.some(...): an entity of others is similar to item
someSimilar(item, others, key) ==
  \E k \in 1..Len(others) : similar(Get(item, key), Get(others[k], key))

\* a count of the extracted entities that match, not of the ground-truth entities
\* that were found
countFound_byExtracted(truth, extracted, key, i) ==
  Cardinality({k \in 1..Len(extracted) : someSimilar(extracted[k], truth, key)})

\* the forEach over the ground truth, from entity i on: found++ for each entity for
\* which extracted.find(...) returns an entity
RECURSIVE countFound(_, _, _, _)
countFound(truth, extracted, key, i) ==
  IF i > Len(truth) THEN 0
  ELSE (IF \E k \in 1..Len(extracted) :
             similar(Get(extracted[k], key), Get(truth[i], key))
        THEN 1 ELSE 0)
       + countFound(truth, extracted, key, i + 1)

\* the forEach over the extracted entities, from entity i on: falsePositives++ for
\* each one no ground-truth entity is similar to
RECURSIVE countFalsePositives(_, _, _, _)
countFalsePositives(truth, extracted, key, i) ==
  IF i > Len(extracted) THEN 0
  ELSE (IF someSimilar(extracted[i], truth, key) THEN 0 ELSE 1)
       + countFalsePositives(truth, extracted, key, i + 1)

\* one "Check ..." block of measureAccuracy; it is skipped unless both records hold
\* the category
checkCategory(extracted, truth, category) ==
  LET total == totalOf(truth, category)
      key == accuracyKey(category)
  IN IF Truthy(Get(truth, category)) /\ Truthy(Get(extracted, category))
     THEN LET found == countFound(Get(truth, category).v, Get(extracted, category).v, key, 1)
          IN [found |-> found,
              total |-> total,
              accuracy |-> IF total > 0 THEN Ratio(found * 100, total) ELSE Ratio(0, 1),
              falsePositives |->
                countFalsePositives(Get(truth, category).v, Get(extracted, category).v,
                                    key, 1)]
     ELSE [found |-> 0, total |-> total, accuracy |-> Ratio(0, 1), falsePositives |-> 0]

\* 1 for a category with ground truth, 0 for one without
weight(check) == IF check.total > 0 THEN 1 ELSE 0

\* a mean over all three categories
overallAccuracy_overThree(goals, bmps, monitoring) ==
  LET sum == RatioSum(RatioSum(goals.accuracy, bmps.accuracy), monitoring.accuracy)
  IN Ratio(sum.num, sum.den * Len(Categories))

\* the overall accuracy: the sum of the weighted accuracies over the total weight
overallAccuracy(goals, bmps, monitoring) ==
  LET totalWeight == weight(goals) + weight(bmps) + weight(monitoring)
      weighted(check) == Ratio(check.accuracy.num * weight(check), check.accuracy.den)
      sum == RatioSum(RatioSum(weighted(goals), weighted(bmps)), weighted(monitoring))
  IN IF totalWeight > 0 THEN Ratio(sum.num, sum.den * totalWeight) ELSE Ratio(0, 1)

measureAccuracy(extracted, truth) ==
  IF ~Truthy(extracted) \/ ~Truthy(truth)
  THEN [overall |-> Ratio(0, 1), goals |-> Ratio(0, 1), bmps |-> Ratio(0, 1),
        monitoring |-> Ratio(0, 1), falsePositives |-> 0,
        details |-> [c \in {"goals", "bmps", "monitoring"} |-> [found |-> 0, total |-> 0]]]
  ELSE LET goals == checkCategory(extracted, truth, "goals")
           bmps == checkCategory(extracted, truth, "bmps")
           monitoring == checkCategory(extracted, truth, "monitoring")
       IN [overall |-> overallAccuracy(goals, bmps, monitoring),
           goals |-> goals.accuracy,
           bmps |-> bmps.accuracy,
           monitoring |-> monitoring.accuracy,
           falsePositives |->
             goals.falsePositives + bmps.falsePositives + monitoring.falsePositives,
           details |-> [goals |-> [found |-> goals.found, total |-> goals.total],
                        bmps |-> [found |-> bmps.found, total |-> bmps.total],
                        monitoring |-> [found |-> monitoring.found,
                                        total |-> monitoring.total]]]

\* the identifying strings of the harness's records
aReduce == <<"r", "e", "d", "u", "c", "e">>

\* aReduce in another case
aReduceCase == <<"R", "e", "d", "u", "c", "e">>

\* one edit away from aReduce: similarity 5/6
aReduse == <<"r", "e", "d", "u", "s", "e">>

\* two edits away from aReduce, three from aReduse
aRedact == <<"r", "e", "d", "a", "c", "t">>

aPhosphorus == <<"p", "h", "o", "s", "p", "h", "o", "r", "u", "s">>

\* three edits in ten characters away from aPhosphorus: similarity exactly 0.7
aPhosphates == <<"p", "h", "o", "s", "p", "h", "a", "t", "e", "s">>

\* shorter than ShortStringLen
aBmp == <<"b", "m", "p">>

aBmpCase == <<"B", "M", "P">>

aBmps == <<"b", "m", "p", "s">>

\* a record of the harness: a category left out is undefined
Tracked(goals, bmps, monitoring) ==
  [t |-> "obj", goals |-> goals, bmps |-> bmps, monitoring |-> monitoring]

\* the ground-truth records, and no record at all
GroundTruths ==
  {Null}
  \cup {Tracked(g, b, m) :
          g \in {Undef, EmptyArray, Arr(<<Goal(Str(aReduce))>>),
                 Arr(<<Goal(Str(aReduce)), Goal(Str(aPhosphorus)), Goal(Str(aRedact))>>)},
          b \in {Undef, EmptyArray, Arr(<<Named(Str(aBmp)), Named(Str(aReduce))>>)},
          m \in {Undef, Arr(<<Metric(Str(aPhosphorus))>>)}}

\* the extracted records, and no record at all
ExtractedRecords ==
  {Null}
  \cup {Tracked(g, b, m) :
          g \in {Undef, EmptyArray,
                 Arr(<<Goal(Str(aReduse)), Goal(Str(aPhosphates)), Goal(Str(aBmps))>>),
                 Arr(<<Goal(Str(aReduce)), Goal(Str(aReduceCase))>>),
                 Arr(<<Goal(Undef)>>)},
          b \in {Undef, EmptyArray, Arr(<<Named(Str(aBmpCase))>>),
                 Arr(<<Named(Str(aBmps)), Named(Str(aRedact))>>)},
          m \in {Undef, Arr(<<Metric(Str(aPhosphates))>>), Arr(<<Metric(Str(aReduce))>>)}}

\* the harness holds an extracted record and its ground truth
InitAccuracy ==
  /\ Idle
  /\ env = TRUE
  /\ extractedRecord \in ExtractedRecords
  /\ groundTruth \in GroundTruths
  /\ accuracy = None

\* the harness measures the extracted record against the ground truth
Measure ==
  /\ accuracy = None
  /\ accuracy' = measureAccuracy(extractedRecord, groundTruth)
  /\ UNCHANGED <<extractedRecord, groundTruth>>
  /\ UNCHANGED besidesAccuracy

NextAccuracy == Measure

SpecAccuracy == InitAccuracy /\ [][NextAccuracy]_vars

(***************************************************************************)
(* Chunking of a text for the LLM (utils/textUtils.js)                     *)
(***************************************************************************)

\* the characters that end a sentence: [.!?]
Terminators == {".", "!", "?"}

\* the index at which a match of /\n\s*\n/ that starts at i ends, 0 if none starts
\* there: \s* is greedy and gives back up to the last line feed of the run
separatorEnd(s, i) ==
  IF s[i] # "\n" THEN 0
  ELSE LET run == {j \in i..Len(s) : \A k \in (i + 1)..j : s[k] \in WhitespaceChars}
           ends == {j \in run : j > i /\ s[j] = "\n"}
       IN IF ends = {} THEN 0 ELSE Max(ends)

\* text.split(/\n\s*\n/), from index i on; piece is the paragraph read so far
RECURSIVE splitParagraphs(_, _, _)
splitParagraphs(s, i, piece) ==
  IF i > Len(s) THEN <<piece>>
  ELSE IF separatorEnd(s, i) > 0
       THEN <<piece>> \o splitParagraphs(s, separatorEnd(s, i) + 1, <<>>)
       ELSE splitParagraphs(s, i + 1, Append(piece, s[i]))

\* the matches of /[^.!?]+[.!?]+/g from index i on
RECURSIVE matchSentences(_, _)
matchSentences(s, i) ==
  IF i > Len(s) THEN <<>>
  ELSE IF s[i] \in Terminators THEN matchSentences(s, i + 1)
  ELSE LET body == Max({j \in i..Len(s) : \A k \in i..j : s[k] \notin Terminators})
           stop == Max({j \in body..Len(s) : \A k \in (body + 1)..j : s[k] \in Terminators})
       IN IF stop = body THEN <<>>
          ELSE <<SubSeq(s, i, stop)>> \o matchSentences(s, stop + 1)

\* text.match(/[^.!?]+[.!?]+/g) || [text]
sentencesOf(s) ==
  IF matchSentences(s, 1) = <<>> THEN <<s>> ELSE matchSentences(s, 1)

\* the while loop that cuts a sentence into slices of maxSize characters
RECURSIVE sliceAll(_, _)
sliceAll(remaining, maxSize) ==
  IF Len(remaining) = 0 THEN <<>>
  ELSE <<SubSeq(remaining, 1, Min({maxSize, Len(remaining)}))>>
       \o sliceAll(SubSeq(remaining, Min({maxSize, Len(remaining)}) + 1, Len(remaining)),
                   maxSize)

\* the separator put between two sentences of a chunk
sentenceGap(currentChunk) ==
  IF Len(currentChunk) > 0 /\ currentChunk[Len(currentChunk)] # " "
  THEN <<" ">> ELSE <<>>

\* pushes the chunk if it has content
pushed(done, currentChunk) ==
  IF Len(currentChunk) > 0 THEN Append(done, currentChunk) ELSE done

\* the loop of chunkBySentences from sentence k on, and its final push
RECURSIVE sentenceLoop(_, _, _, _, _)
sentenceLoop(sentences, k, done, currentChunk, maxSize) ==
  IF k > Len(sentences) THEN pushed(done, currentChunk)
  ELSE LET sentence == sentences[k] IN
       IF Len(currentChunk) + Len(sentence) > maxSize
       THEN IF Len(sentence) > maxSize
            THEN sentenceLoop(sentences, k + 1,
                              pushed(done, currentChunk) \o sliceAll(sentence, maxSize),
                              <<>>, maxSize)
            ELSE sentenceLoop(sentences, k + 1, pushed(done, currentChunk), sentence,
                              maxSize)
       ELSE sentenceLoop(sentences, k + 1, done,
                         currentChunk \o sentenceGap(currentChunk) \o sentence, maxSize)

chunkBySentences(s, maxSize) == sentenceLoop(sentencesOf(s), 1, <<>>, <<>>, maxSize)

\* the loop of chunkText from paragraph k on, and its final push
RECURSIVE paragraphLoop(_, _, _, _, _)
paragraphLoop(paragraphs, k, done, currentChunk, maxSize) ==
  IF k > Len(paragraphs) THEN pushed(done, currentChunk)
  ELSE LET paragraph == paragraphs[k] IN
       IF Len(currentChunk) + Len(paragraph) + 2 > maxSize
       THEN IF Len(paragraph) > maxSize
            THEN paragraphLoop(paragraphs, k + 1,
                               pushed(done, currentChunk)
                                 \o chunkBySentences(paragraph, maxSize),
                               <<>>, maxSize)
            ELSE paragraphLoop(paragraphs, k + 1, pushed(done, currentChunk), paragraph,
                               maxSize)
       ELSE paragraphLoop(paragraphs, k + 1, done,
                          currentChunk
                            \o (IF Len(currentChunk) > 0 THEN <<"\n", "\n">> ELSE <<>>)
                            \o paragraph,
                          maxSize)

\* chunkText(text, maxChunkSize): the chunks, each a string
chunkText(s, maxSize) ==
  IF Len(s) = 0 \/ Len(s) <= maxSize THEN <<s>>
  ELSE paragraphLoop(splitParagraphs(s, 1, <<>>), 1, <<>>, <<>>, maxSize)

\* longest text handed to chunkText
MaxTextLen == 6

\* largest chunk size handed to chunkText
MaxChunk == 4

\* the characters of a text: a letter, a sentence end, a space, a line feed
TextChars == {"a", ".", " ", "\n"}

\* the texts of at most MaxTextLen characters
ChunkTexts == UNION {[1..n -> TextChars] : n \in 0..MaxTextLen}

\* a caller chunks a text
ChunkTextCalled ==
  /\ maxChunkSize = 0
  /\ \E s \in ChunkTexts, maxSize \in 1..MaxChunk :
       /\ chunkInput' = s
       /\ maxChunkSize' = maxSize
       /\ chunks' = chunkText(s, maxSize)
  /\ UNCHANGED besidesChunk

NextChunk == ChunkTextCalled

SpecChunk == Init /\ [][NextChunk]_vars

(***************************************************************************)
(* The accuracy batch: runAccuracyTests                                    *)
(***************************************************************************)

\* settings.minRequiredAccuracy
MinRequiredAccuracy == 75

\* a fraction is at least the integer n
RatioAtLeast(a, n) == a.num >= n * a.den

RECURSIVE Gcd(_, _)
Gcd(a, b) == IF b = 0 THEN a ELSE Gcd(b, a % b)

\* the same number in lowest terms
Lowest(a) ==
  LET g == Gcd(a.num, a.den) IN IF g = 0 THEN a ELSE Ratio(a.num \div g, a.den \div g)

\* a ground truth of the shape of groundTruthData: three goals, bmps and metrics
TruthOfThree ==
  Tracked(Arr(<<Goal(Str(aReduce)), Goal(Str(aPhosphorus)), Goal(Str(aRedact))>>),
          Arr(<<Named(Str(aBmp)), Named(Str(aBmps)), Named(Str(aReduce))>>),
          Arr(<<Metric(Str(aPhosphorus)), Metric(Str(aReduce)), Metric(Str(aRedact))>>))

\* a ground truth with four goals and nothing else
TruthOfFourGoals ==
  Tracked(Arr(<<Goal(Str(aReduce)), Goal(Str(aPhosphorus)), Goal(Str(aRedact)),
                Goal(Str(aBmp))>>), Undef, Undef)

\* what extractWatershedData returns as data for a file, with the file's ground
\* truth (undefined when groundTruthData has none for the plan)
Samples ==
  [unmeasured |-> [data |-> TruthOfThree, truth |-> Undef],
   all |-> [data |-> TruthOfThree, truth |-> TruthOfThree],
   oneMetric |->
     [data |-> Tracked(TruthOfThree.goals, TruthOfThree.bmps,
                       Arr(<<Metric(Str(aPhosphates)), Metric(Str(aBmps))>>)),
      truth |-> TruthOfThree],
   threeOfFour |->
     [data |-> Tracked(Arr(<<Goal(Str(aReduce)), Goal(Str(aPhosphorus)),
                             Goal(Str(aRedact))>>), EmptyArray, EmptyArray),
      truth |-> TruthOfFourGoals],
   nothing |-> [data |-> Tracked(EmptyArray, EmptyArray, EmptyArray),
                truth |-> TruthOfThree]]

\* the steps of the loop body that can throw
FailureStages == {"pdf", "watershed", "document", "write"}

\* what befalls a file: the sample it yields and the step that throws, if any
Fates ==
  {[sample |-> s, failure |-> "none"] : s \in DOMAIN Samples}
  \cup {[sample |-> "all", failure |-> f] : f \in FailureStages}
  \cup {[sample |-> "nothing", failure |-> "write"]}

\* what befalls a file in the PDF-only mode
PdfOnlyFates ==
  {[sample |-> "all", failure |-> f] : f \in {"none", "pdf"}}

\* most files in the test data directory
MaxFiles == 3

\* testResults as the batch starts
newTestResults(n) ==
  [overall |-> [totalFiles |-> n,
                filesProcessed |-> 0,
                filesSucceeded |-> 0,
                averageAccuracy |-> Ratio(0, 1),
                goalAccuracy |-> Ratio(0, 1),
                bmpAccuracy |-> Ratio(0, 1),
                monitoringAccuracy |-> Ratio(0, 1),
                zeroFalsePositives |-> TRUE],
   files |-> <<>>]

\* Step 4: accuracyResults, null without ground truth
accuracyResultsOf(sample) ==
  IF Truthy(Samples[sample].truth)
  THEN measureAccuracy(Samples[sample].data, Samples[sample].truth)
  ELSE Null

\* an error that also counts the file as processed
onFileError_counted(results, fileName, message) ==
  [results EXCEPT !.files = Append(@, [fileName |-> fileName, error |-> message]),
                  !.overall.filesProcessed = @ + 1]

\* the catch of the loop body
onFileError(results, fileName, message) ==
  [results EXCEPT !.files = Append(@, [fileName |-> fileName, error |-> message])]

\* Step 4, on zeroFalsePositives
afterMeasure(results, acc) ==
  IF acc # Null /\ acc.falsePositives > 0
  THEN [results EXCEPT !.overall.zeroFalsePositives = FALSE] ELSE results

\* Step 5 up to the write of the result file
afterSave(results, fileName, acc) ==
  [results EXCEPT
     !.files = Append(@, [fileName |-> fileName, accuracy |-> acc]),
     !.overall.filesProcessed = @ + 1,
     !.overall.filesSucceeded =
        IF acc # Null /\ RatioAtLeast(acc.overall, MinRequiredAccuracy)
        THEN @ + 1 ELSE @]

\* one pass of the loop body for a file
processFile(results, fileName, fate, only) ==
  IF fate.failure = "pdf" THEN onFileError(results, fileName, "pdf")
  ELSE IF only THEN results
  ELSE IF fate.failure \in {"watershed", "document"}
  THEN onFileError(results, fileName, fate.failure)
  ELSE LET acc == accuracyResultsOf(fate.sample)
           saved == afterSave(afterMeasure(results, acc), fileName, acc)
       IN IF fate.failure = "write" THEN onFileError(saved, fileName, "write") ELSE saved

\* testResults.files.filter(f => f.accuracy).map(f => f.accuracy)
measuredOf(files) ==
  SelectSeq(files, LAMBDA f : "accuracy" \in DOMAIN f /\ f.accuracy # Null)

\* accuracyResults.reduce((sum, acc) => sum + acc[field], 0)
RECURSIVE sumOfField(_, _)
sumOfField(entries, field) ==
  IF entries = <<>> THEN Ratio(0, 1)
  ELSE Lowest(RatioSum(Lowest(Head(entries).accuracy[field]),
                       sumOfField(Tail(entries), field)))

\* a mean over all files processed, measured or not
meanOfField_overProcessed(results, field) ==
  LET sum == sumOfField(measuredOf(results.files), field)
  IN Ratio(sum.num, sum.den * results.overall.filesProcessed)

\* the sum over the measured files divided by their number
meanOfField(results, field) ==
  LET sum == sumOfField(measuredOf(results.files), field)
  IN Ratio(sum.num, sum.den * Len(measuredOf(results.files)))

\* Calculate overall statistics
withStatistics(results) ==
  IF results.overall.filesProcessed > 0 /\ Len(measuredOf(results.files)) > 0
  THEN [results EXCEPT
          !.overall.averageAccuracy = meanOfField(results, "overall"),
          !.overall.goalAccuracy = meanOfField(results, "goals"),
          !.overall.bmpAccuracy = meanOfField(results, "bmps"),
          !.overall.monitoringAccuracy = meanOfField(results, "monitoring")]
  ELSE results

\* runAccuracyTests starts: it exits without the API key or without test files
BatchStarts ==
  /\ batchPc = "idle"
  /\ \E key \in BOOLEAN, n \in 0..MaxFiles, only \in BOOLEAN :
       IF ~key \/ n = 0
       THEN /\ batchPc' = "exited"
            /\ UNCHANGED <<pdfOnly, totalFiles, testResults>>
       ELSE /\ batchPc' = "running"
            /\ pdfOnly' = only
            /\ totalFiles' = n
            /\ testResults' = newTestResults(n)
  /\ UNCHANGED <<fates, passed>>
  /\ UNCHANGED besidesBatch

\* the loop body runs for the next file
FileProcessed ==
  /\ batchPc = "running"
  /\ Len(fates) < totalFiles
  /\ \E fate \in IF pdfOnly THEN PdfOnlyFates ELSE Fates :
       /\ fates' = Append(fates, fate)
       /\ testResults' = processFile(testResults, Len(fates) + 1, fate, pdfOnly)
  /\ UNCHANGED <<batchPc, pdfOnly, totalFiles, passed>>
  /\ UNCHANGED besidesBatch

\* after the last file: the statistics and the verdict
BatchSummarised ==
  /\ batchPc = "running"
  /\ Len(fates) = totalFiles
  /\ testResults' = withStatistics(testResults)
  /\ passed' = RatioAtLeast(withStatistics(testResults).overall.averageAccuracy,
                            MinRequiredAccuracy)
  /\ batchPc' = "done"
  /\ UNCHANGED <<pdfOnly, totalFiles, fates>>
  /\ UNCHANGED besidesBatch

NextBatch == BatchStarts \/ FileProcessed \/ BatchSummarised

SpecBatch == Init /\ [][NextBatch]_vars

(***************************************************************************)
(* The report store: storeReport, the /api/report routes and the export of *)
(* a stored report                                                         *)
(***************************************************************************)

\* hours a stored report lives: 24 * 60 * 60 * 1000 ms
ReportLifetime == 24

\* hours between two looks at the clock
ClockStep == 12

\* the clock stops here
MaxClock == 48

\* the report ids requests name
ReportIds == {"r1", "r2"}

\* cleanupExpiredReports: the entries whose expires lies before now are deleted
cleanupExpiredReports(cache, now) ==
  [id \in {i \in DOMAIN cache : ~(cache[i].expires < now)} |-> cache[id]]

\* storeReport: the entry is written, then expired entries are swept
storeReport(cache, id, now) ==
  cleanupExpiredReports(
    (id :> [id |-> id, timestamp |-> now, expires |-> now + ReportLifetime]) @@ cache,
    now)

\* the answer of a route that looks the id up in the cache
lookedUp(route, cache, id, now) ==
  IF id \notin DOMAIN cache
  THEN [route |-> route, id |-> id, status |-> 404, at |-> now]
  ELSE [route |-> route, id |-> id, status |-> 200, at |-> now, report |-> cache[id]]

\* time passes
ClockAdvances ==
  /\ reportClock + ClockStep <= MaxClock
  /\ reportClock' = reportClock + ClockStep
  /\ UNCHANGED <<reportCache, reportReply>>
  /\ UNCHANGED besidesReport

\* POST /api/report
PostReport ==
  /\ \E id \in ReportIds, hasData \in BOOLEAN :
       IF ~hasData
       THEN /\ reportReply' = [route |-> "post", id |-> id, status |-> 400,
                               at |-> reportClock]
            /\ UNCHANGED reportCache
       ELSE /\ reportCache' = storeReport(reportCache, id, reportClock)
            /\ reportReply' = [route |-> "post", id |-> id, status |-> 201,
                               at |-> reportClock]
  /\ UNCHANGED reportClock
  /\ UNCHANGED besidesReport

\* GET /api/report
ListReports ==
  /\ reportCache' = cleanupExpiredReports(reportCache, reportClock)
  /\ reportReply' = [route |-> "list", status |-> 200, at |-> reportClock,
                     reports |-> DOMAIN cleanupExpiredReports(reportCache, reportClock)]
  /\ UNCHANGED reportClock
  /\ UNCHANGED besidesReport

\* GET /api/report/:id
GetReport ==
  /\ \E id \in ReportIds : reportReply' = lookedUp("get", reportCache, id, reportClock)
  /\ UNCHANGED <<reportClock, reportCache>>
  /\ UNCHANGED besidesReport

\* GET /api/export/:id
ExportReport ==
  /\ \E id \in ReportIds : reportReply' = lookedUp("export", reportCache, id, reportClock)
  /\ UNCHANGED <<reportClock, reportCache>>
  /\ UNCHANGED besidesReport

\* DELETE /api/report/:id
DeleteReport ==
  /\ \E id \in ReportIds :
       /\ reportReply' = [route |-> "delete", id |-> id, at |-> reportClock,
                          status |-> IF id \in DOMAIN reportCache THEN 200 ELSE 404]
       /\ reportCache' = [i \in DOMAIN reportCache \ {id} |-> reportCache[i]]
  /\ UNCHANGED reportClock
  /\ UNCHANGED besidesReport

NextReports ==
  \/ ClockAdvances
  \/ PostReport
  \/ ListReports
  \/ GetReport
  \/ ExportReport
  \/ DeleteReport

SpecReports == Init /\ [][NextReports]_vars

(***************************************************************************)
(* The uploaded file of POST /api/pdf/extract, /api/pdf/upload and         *)
(* /api/documents/extract                                                  *)
(***************************************************************************)

\* most upload requests
MaxUploads == 3

UploadRoutes == {"/api/pdf/extract", "/api/pdf/upload", "/api/documents/extract"}

\* the awaited steps of each handler between the upload and fs.unlink
handlerSteps(route) ==
  IF route = "/api/pdf/extract" THEN <<"extractTextFromPDF", "analyzeWithGroq">>
  ELSE IF route = "/api/pdf/upload" THEN <<"extractTextFromPDF", "statSync">>
  ELSE <<"extractTextFromPDF", "extractDocumentData", "analyzeWithGroq">>

\* a failure of the step reaches the catch of the handler; /api/documents/extract
\* wraps analyzeWithGroq in a try of its own and goes on
stepCaught(route, step) ==
  ~(route = "/api/documents/extract" /\ step = "analyzeWithGroq")

\* where the handler goes when a step has passed: the next step, or the unlink
stepAfter(route, step) ==
  LET steps == handlerSteps(route)
      k == CHOOSE i \in 1..Len(steps) : steps[i] = step
  IN IF k = Len(steps) THEN "unlink" ELSE steps[k + 1]

\* the handler is at one of its awaited steps
atStep == \E k \in 1..Len(handlerSteps(uploadRoute)) : handlerSteps(uploadRoute)[k] = uploadPc

\* a request arrives: without a file the handler answers 400, with one multer
\* has written it to disk before the handler runs
UploadArrives ==
  /\ uploadPc \in {"idle", "answered"}
  /\ uploadSeq < MaxUploads
  /\ uploadSeq' = uploadSeq + 1
  /\ \E route \in UploadRoutes, hasFile \in BOOLEAN :
       /\ uploadRoute' = route
       /\ IF hasFile
          THEN /\ written' = written \cup {uploadSeq + 1}
               /\ uploadPc' = handlerSteps(route)[1]
               /\ UNCHANGED uploadStatus
          ELSE /\ uploadStatus' = 400
               /\ uploadPc' = "answered"
               /\ UNCHANGED written
  /\ UNCHANGED unlinked
  /\ UNCHANGED besidesUpload

\* the step in hand succeeds, or fails where the handler swallows the failure
StepPasses ==
  /\ atStep
  /\ uploadPc' = stepAfter(uploadRoute, uploadPc)
  /\ UNCHANGED <<uploadRoute, uploadSeq, written, unlinked, uploadStatus>>
  /\ UNCHANGED besidesUpload

\* the step in hand throws and the catch answers (or hands the error to next)
StepThrows ==
  /\ atStep
  /\ stepCaught(uploadRoute, uploadPc)
  /\ uploadStatus' = 500
  /\ uploadPc' = "answered"
  /\ UNCHANGED <<uploadRoute, uploadSeq, written, unlinked>>
  /\ UNCHANGED besidesUpload

\* Clean up the uploaded file, and answer 200
UploadUnlinked ==
  /\ uploadPc = "unlink"
  /\ unlinked' = unlinked \cup {uploadSeq}
  /\ uploadStatus' = 200
  /\ uploadPc' = "answered"
  /\ UNCHANGED <<uploadRoute, uploadSeq, written>>
  /\ UNCHANGED besidesUpload

NextUploads == UploadArrives \/ StepPasses \/ StepThrows \/ UploadUnlinked

\* a step of the handler in hand
HandlerRuns == StepPasses \/ StepThrows \/ UploadUnlinked

\* a handler that has started runs to its answer: each await settles; whether
\* another request arrives is up to the clients
SpecUploads == Init /\ [][NextUploads]_vars /\ WF_vars(HandlerRuns)

(***************************************************************************)
(* Properties                                                              *)
(***************************************************************************)

\* the extractor has returned a result
Returned == pc \in {"analysis", "done"} /\ outcome.kind = "result"

\* the extractor has thrown
Threw == pc = "done" /\ outcome.kind = "error"

\* the request ran extractDocumentData (directly or through a route)
IsDocument == entry # "extractWatershedData"

\* the reply holds no JSON object that parses
NoObjectInReply ==
  /\ response.kind = "reply"
  /\ \/ response.content.t = "null"
     \/ JSONparseThrows(jsonContent(response.content.v))
     \/ ~IsObjectText(JSONparse(jsonContent(response.content.v)))

\* locating or JSON-parsing the object in the reply failed
ParseFailed ==
  /\ response.kind = "reply"
  /\ \/ response.content.t = "null"
     \/ JSONparseThrows(jsonContent(response.content.v))

\* the reply was parsed into a JSON object
ParsedObject ==
  /\ response.kind = "reply"
  /\ response.content.t = "str"
  /\ ~JSONparseThrows(jsonContent(response.content.v))
  /\ IsObjectText(JSONparse(jsonContent(response.content.v)))

\* C1: in every result of extractDocumentData, every entity of every array section
\* has a non-empty identifying field (description for goals, name for the others)
\* found in the source text: exactly when the trimmed field has at most 5
\* characters, by the case-insensitive flexible pattern otherwise.
C1_SubstringInvariant ==
  (Returned /\ IsDocument) =>
    \A s \in SectionSet :
      LET section == Get(outcome.data, s) IN
      section.t = "arr" =>
        \A i \in 1..Len(section.v) :
          LET field == Get(section.v[i], IF s = "goals" THEN "description" ELSE "name")
          IN /\ section.v[i].t = "obj"
             /\ field.t \in {"str", "num"}
             /\ LET val == Trim(toString(field)) IN
                /\ val # <<>>
                /\ IF Len(val) <= 5
                   THEN Includes(text.v, val)
                   ELSE RegExpTest(flexiblePattern(val), text.v)

\* C1 witness: the reply held a goal of the source and an invented one, and the
\* result keeps the first only
C1_Witness ==
  /\ Returned /\ IsDocument
  /\ Get(response.payload, "goals") = Arr(<<Goal(Str(sExact)), Goal(Str(sAbsent))>>)
  /\ Get(outcome.data, "goals") = Arr(<<Goal(Str(sExact))>>)

\* C2: whenever an extractor returns a report, the hallucination filter ran, and ran
\* before the validator.
C2_FilterBeforeValidation ==
  Returned =>
    \E i, j \in 1..Len(stages) :
      i < j /\ stages[i] = "filter" /\ stages[j] = "validate"

\* C3: in extractDocumentData, a filtered record whose summary.totalGoals differs
\* from the number of goals (or totalBMPs from the number of bmps) gets an issue
\* reporting the mismatch and passedChecks < totalChecks.
C3_MismatchReported ==
  LET data == outcome.data
      summary == Get(data, "summary")
      differs(count, section) ==
        /\ Get(summary, count).t = "num"
        /\ Get(data, section).t = "arr"
        /\ Get(summary, count).n # Len(Get(data, section).v)
  IN (Returned /\ IsDocument
        /\ (differs("totalGoals", "goals") \/ differs("totalBMPs", "bmps"))) =>
       /\ \E i \in 1..Len(outcome.validation.issues) :
            outcome.validation.issues[i].issue = "Array lengths do not match summary counts"
       /\ outcome.validation.passedChecks < outcome.validation.totalChecks

\* C4: a reply that holds no JSON object that parses makes the extraction fail with
\* the parse-failure error, and no result whose data is not a JSON object is returned.
C4_NoObjectNoResult ==
  /\ (pc \in {"analysis", "done"} /\ NoObjectInReply) =>
       (outcome.kind = "error" /\ outcome.message = ParseFailMsg)
  /\ Returned => response.content.t = "str"
                 /\ IsObjectText(JSONparse(jsonContent(response.content.v)))

\* C5: once the reply has been parsed into a JSON object the extractor never throws:
\* it returns the data and a ValidationResult.
C5_ParsedObjectReturns ==
  (pc \in {"analysis", "done"} /\ ParsedObject) => outcome.kind = "result"

\* C6: the parse-failure error is raised if and only if locating or JSON-parsing the
\* object in the reply failed.
C6_ParseErrorIffParseFailed ==
  pc \in {"analysis", "done"} =>
    ((outcome.kind = "error" /\ outcome.message = ParseFailMsg) <=> ParseFailed)

\* C7: an empty or whitespace-only text makes the extractors and /process-text fail
\* with 'No text provided for extraction', and no completion call is made, whether
\* or not the API key is set.
C7_BlankTextNoCall ==
  (pc # "idle" /\ text.t = "str" /\ \A i \in 1..Len(text.v) : text.v[i] \in {" ", "\n"}) =>
    /\ llmCalls = 0
    /\ pc = "done"
    /\ IF entry = "process-text"
       THEN http.status = 400 /\ http.error = NoTextMsg /\ outcome = None
       ELSE outcome.kind = "error" /\ outcome.message = NoTextMsg

\* C7 witness: a whitespace-only text was submitted with the API key set
C7_Witness ==
  /\ pc = "done"
  /\ text = Str(<<" ", "\n">>)
  /\ apiKey
  /\ entry = "extractWatershedData"
  /\ outcome.kind = "error"

\* C8: an extraction makes at most one completion call; when it rejects, the
\* extraction rejects with the provider's message, without a retry or a result.
C8_UpstreamErrorPropagates ==
  /\ llmCalls <= 1
  /\ response.kind = "rejected" =>
       /\ pc = "done"
       /\ llmCalls = 1
       /\ outcome.kind = "error"
       /\ outcome.message = response.message

\* C8 witness: the completion call rejected
C8_Witness ==
  /\ response.kind = "rejected"
  /\ outcome.kind = "error"
  /\ llmCalls = 1

\* C9 as claimed: the parser recovers exactly J from every reply composed around J,
\* whatever the prose.
C9_RecoversFromAnyProse ==
  recovered # None => (recovered.ok /\ recovered.value = json)

\* C9 as amended: the parser recovers exactly J from J alone, from J in a fence (with
\* or without the json tag), and from J between prose that holds no brace and no
\* fence marker.
C9_RecoversFromPlainProse ==
  (/\ recovered # None
   /\ \A i \in 1..2 : \A k \in 1..Len(prose[i]) : prose[i][k] \notin {"{", "}", Fence}) =>
    (recovered.ok /\ recovered.value = json)

\* C9 witness: a nested object between two prose words was recovered
C9_Witness ==
  /\ form = "prose"
  /\ prose = <<<<"p">>, <<"p", "p">>>>
  /\ json = <<"{", "k", "{", "}", "}">>
  /\ recovered # None
  /\ recovered.ok

\* C10 as claimed: the confidence is 0 exactly when totalChecks = 0.
C10_ZeroIffNoChecks ==
  Returned => (outcome.confidence = 0 <=> outcome.validation.totalChecks = 0)

\* C10 as amended: the confidence is 0 exactly when totalChecks = 0 or fewer than
\* one check in 200 passed (passedChecks / totalChecks < 0.005), in particular
\* whenever no check passed.
C10_ZeroIffBelowHalfPercent ==
  Returned =>
    (outcome.confidence = 0 <=>
       \/ outcome.validation.totalChecks = 0
       \/ 200 * outcome.validation.passedChecks < outcome.validation.totalChecks)

\* C10 witness: a validator counted checks, none passed, and the confidence is 0
C10_Witness ==
  /\ Returned
  /\ outcome.validation.totalChecks > 0
  /\ outcome.validation.passedChecks = 0
  /\ outcome.confidence = 0

\* C11: every ValidationResult of either validator has 0 <= passedChecks <=
\* totalChecks, totalChecks = 2 + the sum of the sections' totalChecks, each
\* section's passedChecks <= its totalChecks, and the confidence is the integer
\* round(100 * passedChecks / totalChecks), between 0 and 100.
C11_ChecksBounded ==
  Returned =>
    LET v == outcome.validation
        sv == v.sectionValidation
    IN /\ 0 <= v.passedChecks /\ v.passedChecks <= v.totalChecks
       /\ v.totalChecks = 2 + SumOver([s \in DOMAIN sv |-> sv[s].totalChecks], DOMAIN sv)
       /\ \A s \in DOMAIN sv :
            0 <= sv[s].passedChecks /\ sv[s].passedChecks <= sv[s].totalChecks
       /\ outcome.confidence \in 0..100
       /\ 2 * v.totalChecks * outcome.confidence <= 200 * v.passedChecks + v.totalChecks
       /\ 200 * v.passedChecks - v.totalChecks < 2 * v.totalChecks * outcome.confidence

\* C11 witness: a result in which a section has an entity that was not checked and
\* some check failed
C11_Witness ==
  /\ Returned
  /\ entry = "extractWatershedData"
  /\ Get(outcome.data, "goals") = Arr(<<Null, Goal(Str(sCase))>>)
  /\ outcome.validation.sectionValidation["goals"].totalChecks = 1
  /\ outcome.validation.passedChecks < outcome.validation.totalChecks
  /\ outcome.confidence \in 1..99

\* C12: a successful extraction is answered by the routes with 200, success and
\* the extracted data (its missing values filled) whatever its confidence, with
\* the low-confidence warning exactly when the confidence is below 75.
C12_LowConfidenceStillAnswers ==
  (entry \in Routes /\ Returned /\ pc = "done") =>
    /\ http.status = 200
    /\ http.success
    /\ http.data = fillMissingValues(outcome.data)
    /\ http.confidence = outcome.confidence
    /\ http.warning <=> outcome.confidence < LowConfidence

\* C12 witness: /process-text answered an extraction of confidence exactly 75 without a
\* warning
C12_Witness ==
  /\ entry = "process-text"
  /\ pc = "done"
  /\ Returned
  /\ outcome.confidence = LowConfidence
  /\ http.status = 200
  /\ ~http.warning

\* C13: filterNonPresentEntities is idempotent: filtering the filtered record
\* against the same text gives the filtered record again.
C13_FilterIdempotent ==
  (pc \in {"analysis", "done"} /\ IsDocument /\ response.kind = "reply"
     /\ response.content.t = "str"
     /\ ~JSONparseThrows(jsonContent(response.content.v))) =>
    LET d == Decode(JSONparse(jsonContent(response.content.v)), response.payload)
    IN ~filterNonPresentEntitiesThrows(d) =>
         LET once == filterNonPresentEntities(d, text.v)
         IN /\ ~filterNonPresentEntitiesThrows(once)
            /\ filterNonPresentEntities(once, text.v) = once

\* C13 witness: the filter removed one of two entities of a section, and filtering
\* the result again changes nothing
C13_Witness ==
  /\ Returned /\ IsDocument
  /\ Get(response.payload, "bmps") = Arr(<<Named(Str(sSpace)), Named(Str(sShortAbsent))>>)
  /\ Get(outcome.data, "bmps") = Arr(<<Named(Str(sSpace))>>)
  /\ filterNonPresentEntities(outcome.data, text.v) = outcome.data

\* C14: identifyDocumentType returns the earliest type, in the declared order
\* watershed_plan, environmental_assessment, agricultural_report,
\* conservation_plan, regulatory_document, climate_study, whose pattern matches the
\* text, and general_environmental if and only if no pattern matches (read where the
\* classifier has just returned, before the completion call settles).
C14_FirstMatchWins ==
  (preprocessed # None /\ response = None) =>
    LET matching == {i \in 1..Len(patterns) : patternTest(patterns[i].alternatives, text.v)}
        detected == preprocessed.metadata.documentType
    IN /\ [i \in 1..Len(patterns) |-> patterns[i].type]
            = <<WATERSHED_PLAN, ENVIRONMENTAL_ASSESSMENT, AGRICULTURAL_REPORT,
                CONSERVATION_PLAN, REGULATORY_DOCUMENT, CLIMATE_STUDY>>
       /\ matching # {} => detected = patterns[Min(matching)].type
       /\ detected = GENERAL <=> matching = {}

\* C14 witness: a text that matches the second and the fifth pattern was classified
\* as an environmental assessment
C14_Witness ==
  /\ preprocessed # None
  /\ text = Str(dImpact)
  /\ patternTest(patterns[2].alternatives, text.v)
  /\ patternTest(patterns[5].alternatives, text.v)
  /\ preprocessed.metadata.documentType = ENVIRONMENTAL_ASSESSMENT

\* C15: with options.documentType given (a truthy value), extractDocumentData
\* builds the prompt with the forced type and returns it as documentType, while
\* metadata.documentType holds the detected type; with it absent or null (or
\* otherwise falsy) the returned documentType is the detected type.
C15_ForcedTypeOverrides ==
  (Returned /\ IsDocument) =>
    LET detected == identifyDocumentType(text.v)
        forced == options.documentType
    IN /\ outcome.metadata.documentType = detected
       /\ IF Truthy(forced)
          THEN /\ outcome.documentType = forced
               /\ prompt = [about |-> ReplaceFirst(forced.v, "_", " ")]
          ELSE /\ outcome.documentType = detected
               /\ prompt = [about |-> ReplaceFirst(detected.v, "_", " ")]

\* C15 witness: a climate study extracted as a watershed plan on the caller's demand
C15_Witness ==
  /\ Returned
  /\ entry = "extractDocumentData"
  /\ text = Str(dCarbon)
  /\ options.documentType = WATERSHED_PLAN
  /\ outcome.documentType = WATERSHED_PLAN
  /\ outcome.metadata.documentType = CLIMATE_STUDY
  /\ prompt.about = <<"w", "a", "t", "e", "r", "s", "h", "e", "d", " ", "p", "l", "a", "n">>

\* C16: the documentType of every result of extractDocumentData, and of every
\* response of the routes, is one of the seven values of DocumentTypes, also when
\* the caller supplied a type.
C16_TypeInEnumeration ==
  /\ (Returned /\ IsDocument) => outcome.documentType \in DocumentTypes
  /\ (entry \in Routes /\ pc = "done" /\ http.status = 200) =>
       http.documentType \in DocumentTypes

entitiesOf(record, category) ==
  IF Get(record, category).t = "arr" THEN Get(record, category).v ELSE <<>>

\* the ground-truth entities of a category that some extracted entity of the
\* category is similar to
matchedTruth(category) ==
  LET truth == entitiesOf(groundTruth, category)
      extracted == entitiesOf(extractedRecord, category)
  IN {i \in 1..Len(truth) :
        \E k \in 1..Len(extracted) :
          similar(Get(extracted[k], accuracyKey(category)),
                  Get(truth[i], accuracyKey(category)))}

\* the extracted entities of a category that no ground-truth entity of the
\* category is similar to
unmatchedExtracted(category) ==
  LET truth == entitiesOf(groundTruth, category)
      extracted == entitiesOf(extractedRecord, category)
  IN {k \in 1..Len(extracted) :
        ~\E i \in 1..Len(truth) :
          similar(Get(extracted[k], accuracyKey(category)),
                  Get(truth[i], accuracyKey(category)))}

\* C18: for each of goals (by description), bmps (by name) and monitoring (by
\* metric), the reported accuracy is 100 * found / total, where total is the
\* number of ground-truth entities of the category and found the number of those
\* that some extracted entity is similar to (similarity >= 0.7); it is 0 when
\* total is 0; and 0 <= found <= total.
C18_CategoryAccuracy ==
  accuracy # None =>
    \A c \in {"goals", "bmps", "monitoring"} :
      LET total == Len(entitiesOf(groundTruth, c))
          found == Cardinality(matchedTruth(c))
      IN /\ accuracy.details[c].found = found
         /\ 0 <= found /\ found <= total
         /\ RatioEq(accuracy[c],
                    IF total > 0 THEN Ratio(100 * found, total) ELSE Ratio(0, 1))

\* C18 witness: three ground-truth goals, two of them matched (one of them at
\* similarity exactly 0.7), and one extra extracted goal: accuracy 2/3 of 100 and
\* one false positive
C18_Witness ==
  /\ accuracy # None
  /\ accuracy.details.goals.total = 3
  /\ accuracy.details.goals.found = 2
  /\ Len(entitiesOf(extractedRecord, "goals")) = 3
  /\ RatioEq(stringSimilarity(Str(aPhosphates), Str(aPhosphorus)), Ratio(7, 10))
  /\ RatioEq(accuracy.goals, Ratio(200, 3))
  /\ accuracy.falsePositives = 1

\* C19: falsePositives is the number of extracted goals, bmps and monitoring
\* entities that no ground-truth entity of the same category is similar to, also
\* for a category the ground truth omits or leaves empty (both records given).
C19_FalsePositivesCounted ==
  (accuracy # None /\ Truthy(extractedRecord) /\ Truthy(groundTruth)) =>
    accuracy.falsePositives
      = Cardinality(unmatchedExtracted("goals"))
        + Cardinality(unmatchedExtracted("bmps"))
        + Cardinality(unmatchedExtracted("monitoring"))

\* C20: the overall accuracy is the mean of the accuracies of the categories with
\* ground-truth entities, each counted once, and 0 when there is no such category;
\* a category the ground truth has and the extracted record lacks counts as 0.
C20_OverallIsMean ==
  accuracy # None =>
    LET counted == {c \in {"goals", "bmps", "monitoring"} :
                      Len(entitiesOf(groundTruth, c)) > 0}
        part(c) == IF c \in counted THEN accuracy[c] ELSE Ratio(0, 1)
        sum == RatioSum(RatioSum(part("goals"), part("bmps")), part("monitoring"))
    IN /\ IF counted = {}
          THEN RatioEq(accuracy.overall, Ratio(0, 1))
          ELSE RatioEq(accuracy.overall, Ratio(sum.num, sum.den * Cardinality(counted)))
       /\ \A c \in counted :
            entitiesOf(extractedRecord, c) = <<>> => RatioEq(accuracy[c], Ratio(0, 1))

\* C20 witness: the ground truth has goals (two of three found) and bmps (missing
\* from the extracted record) and no monitoring, the extracted record has
\* monitoring entities: the overall accuracy is (200/3 + 0) / 2
C20_Witness ==
  /\ accuracy # None
  /\ accuracy.details.goals.total = 3
  /\ accuracy.details.bmps.total = 2
  /\ Get(groundTruth, "monitoring") = Undef
  /\ Get(extractedRecord, "bmps") = Undef
  /\ Len(entitiesOf(extractedRecord, "monitoring")) = 1
  /\ RatioEq(accuracy.goals, Ratio(200, 3))
  /\ RatioEq(accuracy.overall, Ratio(100, 3))

\* C25: in every result of extractDocumentData each sectionValidation entry has
\* passedChecks = totalChecks and no issue: the validator's re-check agrees with
\* the filter on every surviving entity, so a confidence below 100 comes from the
\* two structural checks alone.
C25_RecheckAgreesWithFilter ==
  (Returned /\ IsDocument) =>
    LET v == outcome.validation
        sv == v.sectionValidation
    IN /\ \A s \in DOMAIN sv :
            sv[s].passedChecks = sv[s].totalChecks /\ sv[s].issues = <<>>
       /\ v.totalChecks - v.passedChecks <= 2
       /\ outcome.confidence < 100 =>
            \/ outcome.data.t # "obj"
            \/ \E s \in {"summary", "goals", "bmps"} : ~Truthy(Get(outcome.data, s))

\* C25 witness: the filter kept an entity found through the flexible pattern only
\* and dropped one, and the validator checked the survivor and passed it
C25_Witness ==
  /\ Returned /\ IsDocument
  /\ Get(response.payload, "bmps") = Arr(<<Named(Str(sSpace)), Named(Str(sShortAbsent))>>)
  /\ Get(outcome.data, "bmps") = Arr(<<Named(Str(sSpace))>>)
  /\ outcome.validation.sectionValidation["bmps"].totalChecks = 1
  /\ outcome.validation.sectionValidation["bmps"].passedChecks = 1

\* the record the filter of extractDocumentData was given: the reply parsed, and
\* the filter ran on it without throwing
Filtered ==
  /\ pc \in {"analysis", "done"} /\ IsDocument
  /\ response.kind = "reply"
  /\ response.content.t = "str"
  /\ ~JSONparseThrows(jsonContent(response.content.v))
  /\ ~filterNonPresentEntitiesThrows(
         Decode(JSONparse(jsonContent(response.content.v)), response.payload))

\* the record handed to the filter
filterInput == Decode(JSONparse(jsonContent(response.content.v)), response.payload)

\* C26: an implementation, monitoring or outreach entity without a name whose
\* activity (implementation, outreach) or metric (monitoring) text occurs in the
\* source text survives filterNonPresentEntities.
C26_FallbackKeeps ==
  Filtered =>
    \A s \in {"implementation", "monitoring", "outreach"} :
      LET given == Get(filterInput, s)
          kept == Get(filterNonPresentEntities(filterInput, text.v), s)
      IN given.t = "arr" =>
           \A i \in 1..Len(given.v) :
             (/\ given.v[i].t = "obj"
              /\ ~Truthy(Get(given.v[i], "name"))
              /\ ensurePresentKeeps(given.v[i], fallbackKey(s), text.v)) =>
               /\ kept.t = "arr"
               /\ \E j \in 1..Len(kept.v) : kept.v[j] = given.v[i]

\* the entities of a section that pass the presence check on the section's
\* identifying field, in the order of the section
RECURSIVE passing(_, _, _)
passing(items, key, originalText) ==
  IF items = <<>> THEN <<>>
  ELSE LET field == Get(Head(items), key)
           val == IF field.t \in {"str", "num"} THEN Trim(toString(field)) ELSE <<>>
           present == /\ val # <<>>
                      /\ IF Len(val) <= 5 THEN Includes(originalText, val)
                         ELSE RegExpTest(flexiblePattern(val), originalText)
       IN (IF present THEN <<Head(items)>> ELSE <<>>)
          \o passing(Tail(items), key, originalText)

RECURSIVE inkOf(_)
inkOf(s) ==
  IF s = <<>> THEN <<>>
  ELSE (IF Head(s) \in WhitespaceChars THEN <<>> ELSE <<Head(s)>>) \o inkOf(Tail(s))

\* the chunks read one after the other
RECURSIVE joined(_)
joined(list) == IF list = <<>> THEN <<>> ELSE Head(list) \o joined(Tail(list))

\* C23: every chunk chunkText returns has at most maxChunkSize characters, for
\* every text and every maxChunkSize >= 1.
C23_ChunksFit ==
  maxChunkSize > 0 => \A i \in 1..Len(chunks) : Len(chunks[i]) <= maxChunkSize

\* C30: the chunks read in order hold every non-whitespace character of the text,
\* once and in the original order.
C30_NoContentLost ==
  maxChunkSize > 0 => inkOf(joined(chunks)) = inkOf(chunkInput)

\* the entries of testResults.files that carry a measured accuracy
measuredEntries ==
  {i \in 1..Len(testResults.files) :
     /\ "accuracy" \in DOMAIN testResults.files[i]
     /\ testResults.files[i].accuracy # Null}

\* the sum of accuracy.overall over a set of entries
RECURSIVE overallSum(_)
overallSum(entries) ==
  IF entries = {} THEN Ratio(0, 1)
  ELSE LET i == CHOOSE e \in entries : TRUE
       IN Lowest(RatioSum(Lowest(testResults.files[i].accuracy.overall),
                          overallSum(entries \ {i})))

\* C21: averageAccuracy is the mean of accuracy.overall over the files measured
\* against a ground truth, and 0 when there is none; the verdict is PASSED
\* exactly when averageAccuracy is at least 75; filesSucceeded <= filesProcessed
\* <= totalFiles, and filesSucceeded counts the files whose own overall accuracy
\* is at least 75.
C21_AverageAndVerdict ==
  batchPc \in {"running", "done"} =>
    /\ testResults.overall.filesSucceeded <= testResults.overall.filesProcessed
    /\ testResults.overall.filesProcessed <= testResults.overall.totalFiles
    /\ testResults.overall.filesSucceeded =
         Cardinality({i \in measuredEntries :
            RatioAtLeast(testResults.files[i].accuracy.overall, 75)})
    /\ batchPc = "done" =>
         /\ IF measuredEntries = {}
            THEN testResults.overall.averageAccuracy.num = 0
            ELSE LET sum == overallSum(measuredEntries)
                 IN RatioEq(testResults.overall.averageAccuracy,
                            Ratio(sum.num, sum.den * Cardinality(measuredEntries)))
         /\ passed <=> RatioAtLeast(testResults.overall.averageAccuracy, 75)

\* a batch that passed with an average of exactly 75 over its measured files,
\* with a processed file that had no ground truth
C21_Witness ==
  /\ batchPc = "done"
  /\ passed
  /\ testResults.overall.averageAccuracy.num = 75 * testResults.overall.averageAccuracy.den
  /\ Cardinality(measuredEntries) < testResults.overall.filesProcessed
  /\ testResults.overall.filesSucceeded = Cardinality(measuredEntries)

\* C22: whenever the verdict is PASSED, the reported goal, BMP and monitoring
\* accuracy are each at least 75.
C22_PassedMeansEachCategory ==
  (batchPc = "done" /\ passed) =>
    /\ RatioAtLeast(testResults.overall.goalAccuracy, 75)
    /\ RatioAtLeast(testResults.overall.bmpAccuracy, 75)
    /\ RatioAtLeast(testResults.overall.monitoringAccuracy, 75)

\* the files whose PDF read, extraction or validation threw
failedFiles ==
  {i \in 1..Len(fates) : fates[i].failure \in {"pdf", "watershed", "document"}}

\* the files whose loop body reached the result
resultFiles ==
  {i \in 1..Len(fates) : ~pdfOnly /\ fates[i].failure \in {"none", "write"}}

\* the entries of testResults.files for a file
entriesOf(fileName) ==
  {i \in 1..Len(testResults.files) : testResults.files[i].fileName = fileName}

\* C28: a file whose PDF read, extraction or validation fails is recorded as
\* {fileName, error} and nothing else, it is not counted in filesProcessed,
\* filesSucceeded or the averages, and the files after it are still processed.
C28_FailureIsContained ==
  batchPc \in {"running", "done"} =>
    /\ \A f \in failedFiles :
         /\ Cardinality(entriesOf(f)) = 1
         /\ \A i \in entriesOf(f) :
              DOMAIN testResults.files[i] = {"fileName", "error"}
    /\ testResults.overall.filesProcessed = Cardinality(resultFiles)
    /\ \A i \in measuredEntries : testResults.files[i].fileName \in resultFiles
    /\ \A f \in resultFiles :
         \E i \in entriesOf(f) : "accuracy" \in DOMAIN testResults.files[i]
    /\ batchPc = "done" => Len(fates) = totalFiles

\* a batch whose first file failed and whose later file was measured and counted
C28_Witness ==
  /\ batchPc = "done"
  /\ 1 \in failedFiles
  /\ \E f \in resultFiles : f > 1 /\ testResults.files[f].fileName = f
  /\ testResults.overall.filesSucceeded = 1
  /\ testResults.overall.filesProcessed < Len(fates)

\* C24: GET /api/report/:id and GET /api/export/:id never answer with a report
\* whose expires time has passed.
C24_ExpiredNeverServed ==
  (reportReply # None /\ reportReply.route \in {"get", "export"}
   /\ reportReply.status = 200) =>
    ~(reportReply.report.expires < reportReply.at)

\* right after a store or a listing the cache holds no expired report
SweptOnStoreAndList ==
  (reportReply # None /\ reportReply.route \in {"list", "post"}
   /\ reportReply.status \in {200, 201} /\ reportReply.at = reportClock) =>
    \A id \in DOMAIN reportCache : ~(reportCache[id].expires < reportClock)

\* C29: every uploaded PDF a route wrote to disk is eventually unlinked,
\* whatever the outcome of the request.
C29_UploadEventuallyUnlinked ==
  \A path \in 1..MaxUploads : (path \in written) ~> (path \in unlinked)

====
